---- MODULE Spec2Model ----
(***************************************************************************)
(* Listener orchestrator of the Sonos wall display (package sonos):        *)
(* ListenForEvents with its NOTIFY callback handler, the control loop over *)
(* queued events, renewal ticks, idle expiry, server faults and            *)
(* cancellation, and the GENA subscribe/renew/unsubscribe calls it makes.  *)
(*                                                                         *)
(* Strings are sequences of one-character strings, so that trimming, case  *)
(* folding, prefix tests and joins are computed as the code computes them. *)
(* Durations are integers in milliseconds.                                 *)
(***************************************************************************)
EXTENDS Integers, Sequences, FiniteSets, TLC

(***************************************************************************)
(* Bounds of the model.                                                    *)
(***************************************************************************)
\* Spec: the device sends a further NOTIFY only while fewer than this many
\* events wait in the queue.
MaxInFlight == 1

(***************************************************************************)
(* Program constants.                                                      *)
(***************************************************************************)
\* make(chan AVTransportEvent, 16)
NotifyChCap == 16
\* make(chan error, 1)
ServerErrorsCap == 1
\* time.Second, time.Minute in milliseconds
Second == 1000
Minute == 60 * Second
\* the timeout ListenForEvents requests: 30*time.Minute
RequestedTimeout == 30 * Minute

(***************************************************************************)
(* strings                                                                 *)
(***************************************************************************)
UpperChars ==
    <<"A","B","C","D","E","F","G","H","I","J","K","L","M",
      "N","O","P","Q","R","S","T","U","V","W","X","Y","Z">>

LowerChars ==
    <<"a","b","c","d","e","f","g","h","i","j","k","l","m",
      "n","o","p","q","r","s","t","u","v","w","x","y","z">>

SpaceChars == {" ", "\t", "\n", "\r"}

UpperSet == {UpperChars[i] : i \in 1..Len(UpperChars)}

LowerSet == {LowerChars[i] : i \in 1..Len(LowerChars)}

LowerOf == [c \in UpperSet |-> LowerChars[CHOOSE i \in 1..Len(UpperChars) : UpperChars[i] = c]]

UpperOf == [c \in LowerSet |-> UpperChars[CHOOSE i \in 1..Len(LowerChars) : LowerChars[i] = c]]

ToLowerChar(c) == IF c \in UpperSet THEN LowerOf[c] ELSE c

ToUpperChar(c) == IF c \in LowerSet THEN UpperOf[c] ELSE c

\* strings.ToLower
ToLower(s) == [i \in 1..Len(s) |-> ToLowerChar(s[i])]

\* strings.ToUpper
ToUpper(s) == [i \in 1..Len(s) |-> ToUpperChar(s[i])]

RECURSIVE TrimLeft(_)
TrimLeft(s) ==
    IF s # <<>> /\ Head(s) \in SpaceChars THEN TrimLeft(Tail(s)) ELSE s

RECURSIVE TrimRight(_)
TrimRight(s) ==
    IF s # <<>> /\ s[Len(s)] \in SpaceChars
    THEN TrimRight(SubSeq(s, 1, Len(s) - 1))
    ELSE s

\* strings.TrimSpace
TrimSpace(s) == TrimRight(TrimLeft(s))

\* strings.HasPrefix
HasPrefix(s, p) == Len(s) >= Len(p) /\ SubSeq(s, 1, Len(p)) = p

\* strings.TrimPrefix
TrimPrefix(s, p) == IF HasPrefix(s, p) THEN SubSeq(s, Len(p) + 1, Len(s)) ELSE s

\* strings.EqualFold (ASCII)
EqualFold(a, b) == ToLower(a) = ToLower(b)

\* strings.Join
RECURSIVE Join(_, _)
Join(fields, sep) ==
    IF fields = <<>> THEN <<>>
    ELSE IF Len(fields) = 1 THEN fields[1]
    ELSE fields[1] \o sep \o Join(Tail(fields), sep)

(***************************************************************************)
(* String literals of the program.                                         *)
(***************************************************************************)
StrPLAYING == <<"P","L","A","Y","I","N","G">>
StrPAUSED_PLAYBACK == <<"P","A","U","S","E","D","_","P","L","A","Y","B","A","C","K">>
StrSTOPPED == <<"S","T","O","P","P","E","D">>
StrTRANSITIONING == <<"T","R","A","N","S","I","T","I","O","N","I","N","G">>
StrNO_MEDIA_PRESENT == <<"N","O","_","M","E","D","I","A","_","P","R","E","S","E","N","T">>
StrPlaying == <<"P","l","a","y","i","n","g">>
StrPaused == <<"P","a","u","s","e","d">>
StrStopped == <<"S","t","o","p","p","e","d">>
StrTransitioning == <<"T","r","a","n","s","i","t","i","o","n","i","n","g">>
StrNoMedia == <<"N","o"," ","M","e","d","i","a">>
StrUnknown == <<"U","n","k","n","o","w","n">>
StrIdle == <<"(","i","d","l","e",")">>
StrXSonos == <<"x","-","s","o","n","o","s">>
StrSecondPrefix == <<"s","e","c","o","n","d","-">>
StrInfinite == <<"i","n","f","i","n","i","t","e">>

(***************************************************************************)
(* Display formatting and the change signature.                            *)
(***************************************************************************)
DigitChars == <<"0","1","2","3","4","5","6","7","8","9">>

IsDigit(c) == \E i \in 1..Len(DigitChars) : DigitChars[i] = c

DigitVal(c) == (CHOOSE i \in 1..Len(DigitChars) : DigitChars[i] = c) - 1

RECURSIVE ParseDigits(_)
ParseDigits(s) ==
    IF s = <<>> THEN 0
    ELSE ParseDigits(SubSeq(s, 1, Len(s) - 1)) * 10 + DigitVal(s[Len(s)])

formatStateDisplay(raw) ==
    LET state == ToUpper(TrimSpace(raw))
    IN  CASE state = StrPLAYING -> StrPlaying
          [] state = StrPAUSED_PLAYBACK -> StrPaused
          [] state = StrSTOPPED -> StrStopped
          [] state = StrTRANSITIONING -> StrTransitioning
          [] state = StrNO_MEDIA_PRESENT -> StrNoMedia
          [] state = <<>> -> <<>>
          [] OTHER -> raw

formatTrackDisplay(info) ==
    LET title == TrimSpace(info.Title)
        artist == TrimSpace(info.Artist)
    IN  IF title # <<>> /\ artist # <<>> THEN artist \o <<" ", "-", " ">> \o title
        ELSE IF title # <<>> THEN title
        ELSE IF artist # <<>> THEN artist
        ELSE IF TrimSpace(info.StreamInfo) # <<>> THEN TrimSpace(info.StreamInfo)
        ELSE IF TrimSpace(info.URI) # <<>> THEN TrimSpace(info.URI)
        ELSE <<>>

trackSignature(info, display) ==
    LET fields == <<info.Title, info.Artist, info.Album, info.StreamInfo,
                    info.URI, display>>
    IN  Join([i \in 1..Len(fields) |-> ToLower(TrimSpace(fields[i]))], <<"|">>)

\* a prefix test that forgets the case folding
shouldSkipDisplayCaseSensitive(value) == HasPrefix(TrimSpace(value), StrXSonos)

shouldSkipDisplay(value) == HasPrefix(ToLower(TrimSpace(value)), StrXSonos)

(***************************************************************************)
(* GENA timeouts.  ParseDuration is time.ParseDuration for strings of      *)
(* decimal digits and the unit letters h, m and s, with an optional        *)
(* leading sign: one or more terms, each a run of digits followed by a     *)
(* unit (h, m, s or ms); a term without digits or with any other unit is   *)
(* an error.  Durations are in milliseconds.  ParseDurationSeconds is the  *)
(* call time.ParseDuration(seconds + "s").                                 *)
(***************************************************************************)
RECURSIVE DigitPrefixLen(_)
DigitPrefixLen(s) ==
    IF s = <<>> \/ ~IsDigit(Head(s)) THEN 0 ELSE 1 + DigitPrefixLen(Tail(s))

RECURSIVE UnitPrefixLen(_)
UnitPrefixLen(s) ==
    IF s = <<>> \/ IsDigit(Head(s)) THEN 0 ELSE 1 + UnitPrefixLen(Tail(s))

UnitMillis(unit) ==
    CASE unit = <<"m","s">> -> 1
      [] unit = <<"s">> -> Second
      [] unit = <<"m">> -> Minute
      [] unit = <<"h">> -> 60 * Minute
      [] OTHER -> 0

RECURSIVE ParseTerms(_)
ParseTerms(s) ==
    IF s = <<>> THEN [err |-> FALSE, n |-> 0]
    ELSE LET dl   == DigitPrefixLen(s)
             rest == SubSeq(s, dl + 1, Len(s))
             ul   == UnitPrefixLen(rest)
             unit == SubSeq(rest, 1, ul)
             tail == ParseTerms(SubSeq(rest, ul + 1, Len(rest)))
         IN  IF dl = 0 \/ UnitMillis(unit) = 0 \/ tail.err
             THEN [err |-> TRUE, n |-> 0]
             ELSE [err |-> FALSE,
                   n |-> ParseDigits(SubSeq(s, 1, dl)) * UnitMillis(unit) + tail.n]

ParseDuration(s) ==
    LET signed == s # <<>> /\ Head(s) \in {"-", "+"}
        terms  == ParseTerms(IF signed THEN Tail(s) ELSE s)
    IN  IF s = <<"0">> THEN [err |-> FALSE, n |-> 0]
        ELSE IF (IF signed THEN Tail(s) ELSE s) = <<>> THEN [err |-> TRUE, n |-> 0]
        ELSE [err |-> terms.err,
              n   |-> IF signed /\ Head(s) = "-" THEN 0 - terms.n ELSE terms.n]

ParseDurationSeconds(seconds) == ParseDuration(seconds \o <<"s">>)

parseUPnPTimeout(header) ==
    LET value == TrimSpace(ToLower(header))
    IN  IF value = <<>> THEN 0
        ELSE IF value = StrInfinite THEN 0
        ELSE IF HasPrefix(value, StrSecondPrefix)
                /\ ~ParseDurationSeconds(TrimPrefix(value, StrSecondPrefix)).err
             THEN ParseDurationSeconds(TrimPrefix(value, StrSecondPrefix)).n
        ELSE 0

\* half the lease, without the one-minute floor
RenewIntervalUnclamped(timeout) == timeout \div 2

\* interval := timeout / 2; if interval < time.Minute { interval = time.Minute }
RenewInterval(timeout) ==
    IF timeout \div 2 < Minute THEN Minute ELSE timeout \div 2

(***************************************************************************)
(* GENA subscribe, renew, unsubscribe: the result of each call as a        *)
(* function of the device's response.  A response is                       *)
(* [transport, status, sid, timeout]: transport "err" is a failed          *)
(* client.Do, sid and timeout are the SID and TIMEOUT headers.             *)
(***************************************************************************)
NoSubscription == [ID |-> <<>>, Timeout |-> 0]

StatusAccepted(status) == status = 200 \/ status = 202

\* io.ReadAll(io.LimitReader(resp.Body, 512)), trimmed
SnippetLimit == 512

\* a snippet of the whole body
SnippetWhole(body) == TrimSpace(body)

Snippet(body) ==
    TrimSpace(SubSeq(body, 1, IF Len(body) < SnippetLimit THEN Len(body) ELSE SnippetLimit))

\* fmt.Errorf("sonos: <operation> status %s: %s", resp.Status, snippet)
StatusError(resp) == [status |-> resp.status, snippet |-> Snippet(resp.body)]

\* a subscribe that takes the SID header as it comes, blank or not
SubscribeAVTransportAnySid(resp, timeout) ==
    LET requested  == IF timeout <= 0 THEN 30 * Minute ELSE timeout
        parsed     == parseUPnPTimeout(resp.timeout)
        negotiated == IF parsed <= 0 THEN requested ELSE parsed
    IN  IF resp.transport = "err" THEN [err |-> "transport", sub |-> NoSubscription]
        ELSE IF ~StatusAccepted(resp.status)
             THEN [err |-> "status", sub |-> NoSubscription, detail |-> StatusError(resp)]
        ELSE [err |-> "", sub |-> [ID |-> TrimSpace(resp.sid), Timeout |-> negotiated]]

SubscribeAVTransport(resp, timeout) ==
    LET requested  == IF timeout <= 0 THEN 30 * Minute ELSE timeout
        sid        == TrimSpace(resp.sid)
        parsed     == parseUPnPTimeout(resp.timeout)
        negotiated == IF parsed <= 0 THEN requested ELSE parsed
    IN  IF resp.transport = "err" THEN [err |-> "transport", sub |-> NoSubscription]
        ELSE IF ~StatusAccepted(resp.status)
             THEN [err |-> "status", sub |-> NoSubscription, detail |-> StatusError(resp)]
        ELSE IF sid = <<>> THEN [err |-> "missing_sid", sub |-> NoSubscription]
        ELSE [err |-> "", sub |-> [ID |-> sid, Timeout |-> negotiated]]

RenewAVTransport(sub, timeout, resp) ==
    IF resp.transport = "err" THEN [err |-> "transport", n |-> 0]
    ELSE IF ~StatusAccepted(resp.status)
         THEN [err |-> "status", n |-> 0, detail |-> StatusError(resp)]
    ELSE [err |-> "", n |-> parseUPnPTimeout(resp.timeout)]

UnsubscribeAVTransport(sub, resp) ==
    IF resp.transport = "err" THEN [err |-> "transport"]
    ELSE IF ~StatusAccepted(resp.status)
         THEN [err |-> "status", detail |-> StatusError(resp)]
    ELSE [err |-> ""]

(***************************************************************************)
(* Inputs: what the device and the network can send.                       *)
(***************************************************************************)
Str1800 == <<"S","e","c","o","n","d","-","1","8","0","0">>
Str30 == <<"S","e","c","o","n","d","-","3","0">>
StrNeg == <<"S","e","c","o","n","d","-","-","5">>
StrZero == <<"S","e","c","o","n","d","-","0">>
StrGarbage == <<"S","e","c","o","n","d","-","x">>
StrInfiniteHeader == <<" ","i","n","f","i","n","i","t","e">>

TimeoutHeaders ==
    {Str1800, Str30, StrNeg, StrZero, StrGarbage, StrInfiniteHeader, <<>>}

StrSid == <<"u","u","i","d",":","1">>

Response(transport, status, sid, timeout) ==
    [transport |-> transport, status |-> status, sid |-> sid, timeout |-> timeout,
     body |-> <<>>]

SubscribeResponses ==
    {Response("ok", 200, StrSid, h) : h \in TimeoutHeaders}
    \cup {Response("ok", 202, <<" ">> \o StrSid, Str1800),
          Response("ok", 200, <<" ">>, Str1800),
          Response("ok", 412, StrSid, Str1800),
          Response("err", 0, <<>>, <<>>)}

RenewResponses ==
    {Response("ok", 200, StrSid, h) : h \in TimeoutHeaders}
    \cup {Response("ok", 202, StrSid, Str30),
          Response("ok", 412, <<>>, <<>>),
          Response("err", 0, <<>>, <<>>)}

UnsubscribeResponses ==
    {Response("ok", 200, <<>>, <<>>),
     Response("ok", 412, <<>>, <<>>),
     Response("err", 0, <<>>, <<>>)}

Track(title, artist, uri, art) ==
    [Title |-> title, Artist |-> artist, Album |-> <<>>, StreamInfo |-> <<>>,
     URI |-> uri, AlbumArtURI |-> art]

Event(state, track) == [TransportState |-> state, Track |-> track]

NoTrack == Track(<<>>, <<>>, <<>>, <<>>)

TrackA == Track(<<"T","i">>, <<"S","u">>, <<"u","1">>, <<"/","a">>)
\* the same track, reported in another letter case
TrackAFold == Track(<<"T","I">>, <<"S","u">>, <<"u","1">>, <<"/","a">>)
\* no metadata yet: the display string is the internal stream URI
TrackXSonos == Track(<<>>, <<>>, <<"X","-","S","o","n","o","s","-","v">>, <<>>)

EvPlayA == Event(StrPLAYING, TrackA)
EvPauseA == Event(StrPAUSED_PLAYBACK, TrackAFold)
EvStopIdle == Event(StrSTOPPED, NoTrack)
EvPlayXSonos == Event(StrPLAYING, TrackXSonos)
EvPauseXSonos == Event(StrPAUSED_PLAYBACK, TrackXSonos)

Events == {EvPlayA, EvPauseA, EvStopIdle, EvPlayXSonos, EvPauseXSonos}

\* a device toggled between play and pause
BurstEvents == {EvPlayA, EvPauseA}

\* An HTTP request to the callback path: its method, whether reading the
\* body succeeds, and what ParseAVTransportEvent makes of the body.
Request(method, read, parse, event) ==
    [method |-> method, read |-> read, parse |-> parse, event |-> event]

NotifyRequests(events) == {Request("NOTIFY", "ok", "ok", e) : e \in events}

BadRequests ==
    {Request("NOTIFY", "ok", "err", Event(<<>>, NoTrack)),
     Request("NOTIFY", "err", "err", Event(<<>>, NoTrack)),
     Request("GET", "ok", "ok", EvPlayA)}

(***************************************************************************)
(* State of one ListenForEvents call.                                      *)
(***************************************************************************)
VARIABLES
    opts,                \* ListenerOptions: Debug, Display (configured or nil)
    pc,                  \* "start", "subscribing", "loop", "returned"
    ret,                 \* the returned error: "none" until it returns, "nil", or the error
    ctxDone,             \* ctx.Done() is closed
    server,              \* callback server: "none", "serving", "failed", "closed"
    serverErrors,        \* chan error, capacity 1
    notifyCh,            \* chan AVTransportEvent, capacity 16
    httpLog,             \* status and outcome of the latest callback response
    lastState,
    lastTrackSignature,
    savedArtSignature,
    displayActive,
    idleTimer,           \* "nil", "armed", or "fired" (a value waits in idleTimer.C)
    subscription,        \* Subscription: ID, Timeout
    renewInterval,       \* period of renewTicker
    renewReady,          \* a tick waits in renewTicker.C
    serviced,            \* the select case the latest control-loop iteration took
    effects,             \* side effects of the latest control-loop iteration, in order
    panelLit,            \* the display hardware shows artwork
    genaCall,            \* the latest GENA call made on its own: inputs and result
    targetRoom,          \* Discover: the targetRoom argument
    received,            \* Discover: the packets read so far, in arrival order
    devices,             \* Discover: devices, in order of first appearance
    indexByKey,          \* Discover: key -> index into devices
    discoverPc,          \* Discover: "idle", "reading", "returned"
    discoverOut,         \* Discover: the returned devices and error
    ctxErr,              \* EnrichDevices: ctx.Err(), "" while the context is live
    enrichInput,         \* EnrichDevices: the devices argument
    enriched,            \* EnrichDevices: the copy being filled in
    firstErr,            \* EnrichDevices: the first error kept, "" for nil
    enrichI,             \* EnrichDevices: the loop index, from 1
    enrichPc,            \* EnrichDevices: "idle", "loop", "returned"
    enrichOut,           \* EnrichDevices: the returned devices and error
    libCall             \* the latest library call made on its own: input and result

orchestratorVars ==
    <<lastState, lastTrackSignature, savedArtSignature, displayActive, idleTimer,
      subscription, renewInterval>>

\* state of the calls into the package made outside ListenForEvents
discoverVars == <<targetRoom, received, devices, indexByKey, discoverPc, discoverOut>>

enrichVars == <<ctxErr, enrichInput, enriched, firstErr, enrichI, enrichPc, enrichOut>>

libraryVars == <<genaCall, discoverVars, enrichVars, libCall>>

listenerVars ==
    <<opts, pc, ret, ctxDone, server, serverErrors, notifyCh, httpLog, lastState,
      lastTrackSignature, savedArtSignature, displayActive, idleTimer,
      subscription, renewInterval, renewReady, serviced, effects, panelLit>>

NoCall == [op |-> "none"]

vars ==
    <<opts, pc, ret, ctxDone, server, serverErrors, notifyCh, httpLog, lastState,
      lastTrackSignature, savedArtSignature, displayActive, idleTimer,
      subscription, renewInterval, renewReady, serviced, effects, panelLit,
      libraryVars>>

Init ==
    /\ opts \in [Debug : BOOLEAN, Display : BOOLEAN]
    /\ pc = "start"
    /\ ret = "none"
    /\ ctxDone = FALSE
    /\ server = "none"
    /\ serverErrors = <<>>
    /\ notifyCh = <<>>
    /\ httpLog = [status |-> 0, outcome |-> "none"]
    /\ lastState = <<>>
    /\ lastTrackSignature = <<>>
    /\ savedArtSignature = <<>>
    /\ displayActive = FALSE
    /\ idleTimer = "nil"
    /\ subscription = NoSubscription
    /\ renewInterval = 0
    /\ renewReady = FALSE
    /\ serviced = "none"
    /\ effects = <<>>
    /\ panelLit = FALSE
    /\ genaCall = NoCall
    /\ targetRoom = <<>>
    /\ received = <<>>
    /\ devices = <<>>
    /\ indexByKey = <<>>
    /\ discoverPc = "idle"
    /\ discoverOut = [devices |-> <<>>, err |-> ""]
    /\ ctxErr = ""
    /\ enrichInput = <<>>
    /\ enriched = <<>>
    /\ firstErr = ""
    /\ enrichI = 1
    /\ enrichPc = "idle"
    /\ enrichOut = [devices |-> <<>>, err |-> ""]
    /\ libCall = NoCall

(***************************************************************************)
(* Start-up: local address, bind, serve, subscribe.                        *)
(***************************************************************************)
\* a start-up that subscribes before anything serves the callback socket
SetupUnserved(outcome) ==
    /\ pc = "start"
    /\ IF outcome = "ok"
       THEN /\ pc' = "subscribing"
            /\ server' = server
            /\ ret' = ret
       ELSE /\ pc' = "returned"
            /\ server' = server
            /\ ret' = outcome
    /\ UNCHANGED libraryVars
    /\ UNCHANGED <<opts, ctxDone, serverErrors, notifyCh, httpLog, lastState,
                   lastTrackSignature, savedArtSignature, displayActive, idleTimer,
                   subscription, renewInterval, renewReady, serviced, effects, panelLit>>

Setup(outcome) ==
    /\ pc = "start"
    /\ IF outcome = "ok"
       THEN /\ pc' = "subscribing"
            /\ server' = "serving"
            /\ ret' = ret
       ELSE /\ pc' = "returned"
            /\ server' = server
            /\ ret' = outcome
    /\ UNCHANGED libraryVars
    /\ UNCHANGED <<opts, ctxDone, serverErrors, notifyCh, httpLog, lastState,
                   lastTrackSignature, savedArtSignature, displayActive, idleTimer,
                   subscription, renewInterval, renewReady, serviced, effects, panelLit>>

Subscribe(resp) ==
    /\ pc = "subscribing"
    /\ ctxDone => resp.transport = "err"
    /\ LET r == SubscribeAVTransport(resp, RequestedTimeout)
       IN  IF r.err # ""
           THEN /\ server' = "closed"
                /\ pc' = "returned"
                /\ ret' = r.err
                /\ effects' = <<"shutdown">>
                /\ UNCHANGED <<subscription, renewInterval>>
           ELSE /\ subscription' = r.sub
                /\ renewInterval' = IF r.sub.Timeout > 0
                                    THEN RenewInterval(r.sub.Timeout)
                                    ELSE renewInterval
                /\ pc' = "loop"
                /\ UNCHANGED <<server, ret, effects>>
    /\ UNCHANGED libraryVars
    /\ UNCHANGED <<opts, ctxDone, serverErrors, notifyCh, httpLog, lastState,
                   lastTrackSignature, savedArtSignature, displayActive, idleTimer,
                   renewReady, serviced, panelLit>>

(***************************************************************************)
(* The callback handler and the serve goroutine.                           *)
(***************************************************************************)
\* a send that makes room by discarding the oldest queued event
TrySendDropOldest(ch, event) ==
    IF Len(ch) < NotifyChCap THEN Append(ch, event) ELSE Append(Tail(ch), event)

\* select { case notifyCh <- event: default: }
TrySend(ch, event) == IF Len(ch) < NotifyChCap THEN Append(ch, event) ELSE ch

\* a handler that queues whatever the decoder returned, error or not
HandlerQueuesUndecoded(req) ==
    /\ server = "serving"
    /\ IF req.method # "NOTIFY"
       THEN /\ httpLog' = [status |-> 405, outcome |-> "not_allowed"]
            /\ UNCHANGED notifyCh
       ELSE IF req.read = "err"
       THEN /\ httpLog' = [status |-> 500, outcome |-> "read_error"]
            /\ UNCHANGED notifyCh
       ELSE /\ notifyCh' = TrySend(notifyCh, req.event)
            /\ httpLog' = [status |-> 200,
                           outcome |-> IF req.parse = "err" THEN "parse_error"
                                       ELSE IF Len(notifyCh) < NotifyChCap
                                       THEN "enqueued" ELSE "dropped"]
    /\ UNCHANGED libraryVars
    /\ UNCHANGED <<opts, pc, ret, ctxDone, server, serverErrors, lastState,
                   lastTrackSignature, savedArtSignature, displayActive, idleTimer,
                   subscription, renewInterval, renewReady, serviced, effects, panelLit>>

\* a handler that does not look at the method
HandlerAnyMethod(req) ==
    /\ server = "serving"
    /\ IF req.read = "err"
       THEN /\ httpLog' = [status |-> 500, outcome |-> "read_error"]
            /\ UNCHANGED notifyCh
       ELSE IF req.parse = "err"
       THEN /\ httpLog' = [status |-> 200, outcome |-> "parse_error"]
            /\ UNCHANGED notifyCh
       ELSE /\ notifyCh' = TrySend(notifyCh, req.event)
            /\ httpLog' = [status |-> 200,
                           outcome |-> IF Len(notifyCh) < NotifyChCap
                                       THEN "enqueued" ELSE "dropped"]
    /\ UNCHANGED libraryVars
    /\ UNCHANGED <<opts, pc, ret, ctxDone, server, serverErrors, lastState,
                   lastTrackSignature, savedArtSignature, displayActive, idleTimer,
                   subscription, renewInterval, renewReady, serviced, effects, panelLit>>

Handler(req) ==
    /\ server = "serving"
    /\ IF req.method # "NOTIFY"
       THEN /\ httpLog' = [status |-> 405, outcome |-> "not_allowed"]
            /\ UNCHANGED notifyCh
       ELSE IF req.read = "err"
       THEN /\ httpLog' = [status |-> 500, outcome |-> "read_error"]
            /\ UNCHANGED notifyCh
       ELSE IF req.parse = "err"
       THEN /\ httpLog' = [status |-> 200, outcome |-> "parse_error"]
            /\ UNCHANGED notifyCh
       ELSE /\ notifyCh' = TrySend(notifyCh, req.event)
            /\ httpLog' = [status |-> 200,
                           outcome |-> IF Len(notifyCh) < NotifyChCap
                                       THEN "enqueued" ELSE "dropped"]
    /\ UNCHANGED libraryVars
    /\ UNCHANGED <<opts, pc, ret, ctxDone, server, serverErrors, lastState,
                   lastTrackSignature, savedArtSignature, displayActive, idleTimer,
                   subscription, renewInterval, renewReady, serviced, effects, panelLit>>

\* server.Serve returns an error other than http.ErrServerClosed
ServeFail ==
    /\ server = "serving"
    /\ Len(serverErrors) < ServerErrorsCap
    /\ server' = "failed"
    /\ serverErrors' = Append(serverErrors, "serve_error")
    /\ UNCHANGED libraryVars
    /\ UNCHANGED <<opts, pc, ret, ctxDone, notifyCh, httpLog, lastState,
                   lastTrackSignature, savedArtSignature, displayActive, idleTimer,
                   subscription, renewInterval, renewReady, serviced, effects, panelLit>>

(***************************************************************************)
(* The environment of the control loop: cancellation and the two timers.   *)
(***************************************************************************)
Cancel ==
    /\ pc # "returned"
    /\ ~ctxDone
    /\ ctxDone' = TRUE
    /\ UNCHANGED libraryVars
    /\ UNCHANGED <<opts, pc, ret, server, serverErrors, notifyCh, httpLog, lastState,
                   lastTrackSignature, savedArtSignature, displayActive, idleTimer,
                   subscription, renewInterval, renewReady, serviced, effects, panelLit>>

RenewTick ==
    /\ pc = "loop"
    /\ subscription.Timeout > 0
    /\ ~renewReady
    /\ renewReady' = TRUE
    /\ UNCHANGED libraryVars
    /\ UNCHANGED <<opts, pc, ret, ctxDone, server, serverErrors, notifyCh, httpLog,
                   lastState, lastTrackSignature, savedArtSignature, displayActive,
                   idleTimer, subscription, renewInterval, serviced, effects, panelLit>>

IdleTimerFire ==
    /\ pc = "loop"
    /\ idleTimer = "armed"
    /\ idleTimer' = "fired"
    /\ UNCHANGED libraryVars
    /\ UNCHANGED <<opts, pc, ret, ctxDone, server, serverErrors, notifyCh, httpLog,
                   lastState, lastTrackSignature, savedArtSignature, displayActive,
                   subscription, renewInterval, renewReady, serviced, effects, panelLit>>

(***************************************************************************)
(* The control loop: one select case per action.                           *)
(***************************************************************************)
\* a stop that leaves the timer and its channel in place
stopIdleTimerKeeps(timer) == timer

stopIdleTimer(timer) == IF timer # "nil" THEN "nil" ELSE timer

\* opts.IdleTimeout is positive after the defaulting at the top of
\* ListenForEvents, so only a nil Display makes this a no-op.
startIdleTimer(timer, display) ==
    IF ~display THEN timer
    ELSE IF timer = "nil" THEN "armed"
    ELSE "armed"

\* What SaveAlbumArt can return: (nil, nil) without an art URI, otherwise an
\* image or an error; a fetch under a cancelled context fails, a cached file
\* (cacheToDisk) needs no fetch.
SaveAlbumArtOutcomes(track, cancelled, cacheToDisk) ==
    IF TrimSpace(track.AlbumArtURI) = <<>> THEN {"none"}
    ELSE IF cancelled /\ ~cacheToDisk THEN {"err"}
    ELSE {"img", "err"}

EventState(ev) ==
    IF formatStateDisplay(ev.TransportState) = <<>> THEN StrUnknown
    ELSE formatStateDisplay(ev.TransportState)

EventDisplay(ev) ==
    IF formatTrackDisplay(ev.Track) = <<>> THEN StrIdle
    ELSE formatTrackDisplay(ev.Track)

EventSignature(ev) == trackSignature(ev.Track, EventDisplay(ev))

\* state, display, signature and the x-sonos filter of every event of the
\* model, computed once
EventInfo ==
    [ev \in Events |->
        [state |-> EventState(ev),
         display |-> EventDisplay(ev),
         signature |-> EventSignature(ev),
         skip |-> shouldSkipDisplay(EventDisplay(ev))]]

StateChanged(state, signature, prevState, prevSignature) ==
    state # prevState \/ signature # prevSignature

\* art wanted for every event that has a signature
NeedArtAlways(signature, saved) == signature # <<>>

NeedArt(signature, saved) == signature # <<>> /\ signature # saved

IsPlaying(state) == EqualFold(state, StrPlaying)

\* a receive that drains everything queued
ReceiveAll(ch) == <<>>

\* ev := <-notifyCh: what stays queued
Receive(ch) == Tail(ch)

\* a cancellation case that stays in the loop to retry a failed unsubscribe
HandleCancelRetry(resp) ==
    /\ pc = "loop"
    /\ ctxDone
    /\ serviced' = "cancel"
    /\ server' = "closed"
    /\ effects' = <<"shutdown",
                    IF UnsubscribeAVTransport(subscription, resp).err = ""
                    THEN "unsubscribe_ok" ELSE "unsubscribe_failed">>
    /\ pc' = IF UnsubscribeAVTransport(subscription, resp).err = "" THEN "returned" ELSE pc
    /\ ret' = IF UnsubscribeAVTransport(subscription, resp).err = "" THEN "nil" ELSE ret
    /\ UNCHANGED libraryVars
    /\ UNCHANGED <<opts, ctxDone, serverErrors, notifyCh, httpLog, lastState,
                   lastTrackSignature, savedArtSignature, displayActive, idleTimer,
                   subscription, renewInterval, renewReady, panelLit>>

\* a cancellation case that is taken only when no other case is ready
HandleCancelWhenQuiet(resp) ==
    /\ pc = "loop"
    /\ ctxDone
    /\ notifyCh = <<>>
    /\ ~renewReady
    /\ idleTimer # "fired"
    /\ serverErrors = <<>>
    /\ serviced' = "cancel"
    /\ server' = "closed"
    /\ effects' = <<"shutdown",
                    IF UnsubscribeAVTransport(subscription, resp).err = ""
                    THEN "unsubscribe_ok" ELSE "unsubscribe_failed">>
    /\ pc' = "returned"
    /\ ret' = "nil"
    /\ UNCHANGED libraryVars
    /\ UNCHANGED <<opts, ctxDone, serverErrors, notifyCh, httpLog, lastState,
                   lastTrackSignature, savedArtSignature, displayActive, idleTimer,
                   subscription, renewInterval, renewReady, panelLit>>

\* case <-ctx.Done()
HandleCancel(resp) ==
    /\ pc = "loop"
    /\ ctxDone
    /\ serviced' = "cancel"
    /\ server' = "closed"
    /\ effects' = <<"shutdown",
                    IF UnsubscribeAVTransport(subscription, resp).err = ""
                    THEN "unsubscribe_ok" ELSE "unsubscribe_failed">>
    /\ pc' = "returned"
    /\ ret' = "nil"
    /\ UNCHANGED libraryVars
    /\ UNCHANGED <<opts, ctxDone, serverErrors, notifyCh, httpLog, lastState,
                   lastTrackSignature, savedArtSignature, displayActive, idleTimer,
                   subscription, renewInterval, renewReady, panelLit>>

\* case ev := <-notifyCh
HandleEvent(art, show) ==
    /\ pc = "loop"
    /\ notifyCh # <<>>
    /\ serviced' = "event"
    /\ LET ev == Head(notifyCh)
           state == EventInfo[ev].state
           display == EventInfo[ev].display
           signature == EventInfo[ev].signature
           stateChanged == StateChanged(state, signature, lastState, lastTrackSignature)
           shouldPrint == opts.Debug /\ stateChanged
           needArt == NeedArt(signature, savedArtSignature)
           gotImage == needArt /\ art = "img"
           shown == gotImage /\ opts.Display
       IN  /\ notifyCh' = Receive(notifyCh)
           /\ art \in SaveAlbumArtOutcomes(ev.Track, ctxDone, ~opts.Display)
           /\ IF EventInfo[ev].skip
              THEN /\ effects' = <<>>
                   /\ UNCHANGED <<lastState, lastTrackSignature, savedArtSignature,
                                  displayActive, idleTimer, panelLit>>
              ELSE /\ idleTimer' = IF IsPlaying(state)
                                   THEN stopIdleTimer(idleTimer)
                                   ELSE startIdleTimer(idleTimer, opts.Display)
                   /\ IF ~stateChanged /\ ~needArt
                      THEN /\ effects' = <<>>
                           /\ UNCHANGED <<lastState, lastTrackSignature,
                                          savedArtSignature, displayActive, panelLit>>
                      ELSE /\ lastState' = IF stateChanged THEN state ELSE lastState
                           /\ lastTrackSignature' =
                                  IF stateChanged THEN signature ELSE lastTrackSignature
                           /\ effects' = (IF shouldPrint THEN <<"print">> ELSE <<>>)
                                         \o (IF needArt THEN <<"fetch">> ELSE <<>>)
                                         \o (IF shown THEN <<"show">> ELSE <<>>)
                           /\ savedArtSignature' =
                                  IF gotImage THEN signature ELSE savedArtSignature
                           /\ displayActive' =
                                  IF shown /\ show = "ok" THEN TRUE ELSE displayActive
                           /\ panelLit' =
                                  IF shown /\ show = "ok" THEN TRUE ELSE panelLit
    /\ UNCHANGED libraryVars
    /\ UNCHANGED <<opts, pc, ret, ctxDone, server, serverErrors, httpLog,
                   subscription, renewInterval, renewReady>>

\* an idle case that forgets the art and leaves the display as it is
HandleIdleForgetArt(clear) ==
    /\ pc = "loop"
    /\ idleTimer = "fired"
    /\ serviced' = "idle"
    /\ idleTimer' = stopIdleTimer(idleTimer)
    /\ effects' = <<>>
    /\ UNCHANGED <<panelLit, displayActive>>
    /\ savedArtSignature' = <<>>
    /\ UNCHANGED libraryVars
    /\ UNCHANGED <<opts, pc, ret, ctxDone, server, serverErrors, notifyCh, httpLog,
                   lastState, lastTrackSignature, subscription, renewInterval,
                   renewReady>>

\* case <-idleTimerCh
HandleIdle(clear) ==
    /\ pc = "loop"
    /\ idleTimer = "fired"
    /\ serviced' = "idle"
    /\ idleTimer' = stopIdleTimer(idleTimer)
    /\ IF opts.Display /\ displayActive
       THEN /\ effects' = <<"clear">>
            /\ panelLit' = IF clear = "ok" THEN FALSE ELSE panelLit
            /\ displayActive' = FALSE
       ELSE /\ effects' = <<>>
            /\ UNCHANGED <<panelLit, displayActive>>
    /\ savedArtSignature' = <<>>
    /\ UNCHANGED libraryVars
    /\ UNCHANGED <<opts, pc, ret, ctxDone, server, serverErrors, notifyCh, httpLog,
                   lastState, lastTrackSignature, subscription, renewInterval,
                   renewReady>>

\* a renew case that takes whatever lease a successful renewal reports
HandleRenewAdopts(resp) ==
    /\ pc = "loop"
    /\ renewReady
    /\ renewReady' = FALSE
    /\ serviced' = "renew"
    /\ LET r == RenewAVTransport(subscription, subscription.Timeout, resp)
       IN  /\ effects' = IF r.err # "" THEN <<"renew", "warning">> ELSE <<"renew">>
           /\ IF r.err = ""
              THEN /\ subscription' = [subscription EXCEPT !.Timeout = r.n]
                   /\ renewInterval' = RenewInterval(r.n)
              ELSE UNCHANGED <<subscription, renewInterval>>
    /\ UNCHANGED libraryVars
    /\ UNCHANGED <<opts, pc, ret, ctxDone, server, serverErrors, notifyCh, httpLog,
                   lastState, lastTrackSignature, savedArtSignature, displayActive,
                   idleTimer, panelLit>>

\* case <-renew; a renewal that fails is logged as a warning
HandleRenew(resp) ==
    /\ pc = "loop"
    /\ renewReady
    /\ renewReady' = FALSE
    /\ serviced' = "renew"
    /\ LET r == RenewAVTransport(subscription, subscription.Timeout, resp)
       IN  /\ effects' = IF r.err # "" THEN <<"renew", "warning">> ELSE <<"renew">>
           /\ IF r.err = "" /\ r.n > 0
              THEN /\ subscription' = [subscription EXCEPT !.Timeout = r.n]
                   /\ renewInterval' = RenewInterval(r.n)
              ELSE UNCHANGED <<subscription, renewInterval>>
    /\ UNCHANGED libraryVars
    /\ UNCHANGED <<opts, pc, ret, ctxDone, server, serverErrors, notifyCh, httpLog,
                   lastState, lastTrackSignature, savedArtSignature, displayActive,
                   idleTimer, panelLit>>

\* case err := <-serverErrors
\* a server-fault case that serves again instead of returning
HandleServerErrorRetry ==
    /\ pc = "loop"
    /\ serverErrors # <<>>
    /\ serverErrors' = Tail(serverErrors)
    /\ serviced' = "server_error"
    /\ server' = "serving"
    /\ effects' = <<>>
    /\ UNCHANGED libraryVars
    /\ UNCHANGED <<opts, pc, ret, ctxDone, notifyCh, httpLog, lastState,
                   lastTrackSignature, savedArtSignature, displayActive, idleTimer,
                   subscription, renewInterval, renewReady, panelLit>>

HandleServerError ==
    /\ pc = "loop"
    /\ serverErrors # <<>>
    /\ serverErrors' = Tail(serverErrors)
    /\ serviced' = "server_error"
    /\ server' = "closed"
    /\ effects' = <<"shutdown">>
    /\ pc' = "returned"
    /\ ret' = "callback server error"
    /\ UNCHANGED libraryVars
    /\ UNCHANGED <<opts, ctxDone, notifyCh, httpLog, lastState, lastTrackSignature,
                   savedArtSignature, displayActive, idleTimer, subscription,
                   renewInterval, renewReady, panelLit>>

(***************************************************************************)
(* Specifications.                                                         *)
(***************************************************************************)
Outcomes == {"ok", "err"}

Start == \E outcome \in {"ok", "addr_error", "listen_error"} : Setup(outcome)

DoSubscribe == \E resp \in SubscribeResponses : Subscribe(resp)

LoopCancel == \E resp \in UnsubscribeResponses : HandleCancel(resp)

LoopEvent == \E art \in {"none", "img", "err"}, show \in Outcomes : HandleEvent(art, show)

LoopIdle == \E clear \in Outcomes : HandleIdle(clear)

LoopRenew == \E resp \in RenewResponses : HandleRenew(resp)

ControlLoop == LoopCancel \/ LoopEvent \/ LoopIdle \/ LoopRenew \/ HandleServerError

\* Spec: any request, while fewer than MaxInFlight events are queued.
Deliver ==
    \E req \in NotifyRequests(Events) :
        /\ Len(notifyCh) < MaxInFlight
        /\ Handler(req)

\* SpecBurst: play/pause toggles, each differing from the one before it,
\* sent no matter how many are queued.
DeliverBurst ==
    \E req \in NotifyRequests(BurstEvents) :
        /\ notifyCh # <<>> => req.event # notifyCh[Len(notifyCh)]
        /\ Handler(req)

Next ==
    \/ Start
    \/ DoSubscribe
    \/ Deliver
    \/ ServeFail
    \/ Cancel
    \/ RenewTick
    \/ IdleTimerFire
    \/ LoopCancel
    \/ LoopEvent
    \/ LoopIdle
    \/ LoopRenew
    \/ HandleServerError

NextBurst ==
    \/ Start
    \/ DoSubscribe
    \/ DeliverBurst
    \/ ServeFail
    \/ Cancel
    \/ RenewTick
    \/ IdleTimerFire
    \/ LoopCancel
    \/ LoopEvent
    \/ LoopIdle
    \/ LoopRenew
    \/ HandleServerError

Spec == Init /\ [][Next]_vars

SpecBurst == Init /\ [][NextBurst]_vars

\* ListenForEvents runs its straight-line code to the loop; select picks among
\* the ready cases at random, so a case that stays ready is taken in the end;
\* a running timer that is not stopped fires.  Requests, serve errors and
\* cancellation come from outside and are not forced.
Fairness ==
    /\ WF_vars(Start)
    /\ WF_vars(DoSubscribe)
    /\ WF_vars(LoopCancel)
    /\ WF_vars(LoopEvent)
    /\ WF_vars(LoopIdle)
    /\ WF_vars(LoopRenew)
    /\ WF_vars(HandleServerError)
    /\ WF_vars(IdleTimerFire)
    /\ WF_vars(RenewTick)

SpecFair == Init /\ [][Next]_vars /\ Fairness

\* SpecIngest: as Deliver, and also, at any time, requests the handler
\* rejects or cannot decode.
DeliverAny ==
    \E req \in NotifyRequests(Events) \cup BadRequests :
        /\ req \notin BadRequests => Len(notifyCh) < MaxInFlight
        /\ Handler(req)

NextIngest ==
    \/ Start
    \/ DoSubscribe
    \/ DeliverAny
    \/ ServeFail
    \/ Cancel
    \/ RenewTick
    \/ IdleTimerFire
    \/ LoopCancel
    \/ LoopEvent
    \/ LoopIdle
    \/ LoopRenew
    \/ HandleServerError

SpecIngest == Init /\ [][NextIngest]_vars

\* methods a client may send to the callback path; r.Method is compared as
\* it was sent
OtherMethods == {"GET", "POST", "SUBSCRIBE", "notify"}

\* requests with another method, with a body that would decode and with one
\* that cannot be read
OtherMethodRequests ==
    {Request(method, body, body, EvPlayA) : method \in OtherMethods, body \in {"ok", "err"}}

\* SpecMethods: as SpecIngest, and also, at any time, requests with another
\* method
DeliverOtherMethod == \E req \in OtherMethodRequests : Handler(req)

NextMethods ==
    \/ Start
    \/ DoSubscribe
    \/ DeliverAny
    \/ DeliverOtherMethod
    \/ ServeFail
    \/ Cancel
    \/ RenewTick
    \/ IdleTimerFire
    \/ LoopCancel
    \/ LoopEvent
    \/ LoopIdle
    \/ LoopRenew
    \/ HandleServerError

SpecMethods == Init /\ [][NextMethods]_vars

(***************************************************************************)
(* GENA calls on their own: SubscribeAVTransport, RenewAVTransport and     *)
(* UnsubscribeAVTransport applied to what a device can answer.             *)
(***************************************************************************)
Str5m == <<"S","e","c","o","n","d","-","5","m">>
Str1m30 == <<"S","e","c","o","n","d","-","1","m","3","0">>
StrUpper60 == <<" ","S","E","C","O","N","D","-","6","0"," ">>
StrBare == <<"S","e","c","o","n","d","-">>

GenaTimeoutHeaders == TimeoutHeaders \cup {Str5m, Str1m30, StrUpper60, StrBare}

GenaStatuses == {200, 202, 204, 301, 412, 500}

GenaSids == {StrSid, <<" ">> \o StrSid \o <<" ">>, <<" ">>, <<>>}

\* bodies shorter and longer than the 512 bytes the error keeps
BodyShort == <<" ","n","o"," ">>
BodyLong == [i \in 1..600 |-> "a"]
BodyEdge == [i \in 1..520 |-> IF i \in 1..3 \/ i \in 511..515 THEN " " ELSE "b"]

GenaBodies == {<<>>, BodyShort, BodyLong, BodyEdge}

GenaResponses ==
    {[transport |-> "ok", status |-> st, sid |-> sid, timeout |-> h, body |-> <<>>] :
        st \in GenaStatuses, sid \in GenaSids, h \in GenaTimeoutHeaders}
    \cup {[transport |-> "ok", status |-> st, sid |-> StrSid, timeout |-> Str1800,
           body |-> b] : st \in GenaStatuses, b \in GenaBodies}
    \cup {Response("err", 0, <<>>, <<>>)}

GenaRequestedTimeouts == {0 - Second, 0, 30 * Second, 30 * Minute}

GenaSubscriptions == {[ID |-> StrSid, Timeout |-> 30 * Minute], [ID |-> StrSid, Timeout |-> 0]}

CallSubscribe(resp, timeout) ==
    /\ genaCall = NoCall
    /\ genaCall' = [op |-> "subscribe", resp |-> resp, timeout |-> timeout,
                    out |-> SubscribeAVTransport(resp, timeout)]
    /\ UNCHANGED <<listenerVars, discoverVars, enrichVars, libCall>>

CallRenew(sub, timeout, resp) ==
    /\ genaCall = NoCall
    /\ genaCall' = [op |-> "renew", resp |-> resp, timeout |-> timeout, sub |-> sub,
                    out |-> RenewAVTransport(sub, timeout, resp)]
    /\ UNCHANGED <<listenerVars, discoverVars, enrichVars, libCall>>

CallUnsubscribe(sub, resp) ==
    /\ genaCall = NoCall
    /\ genaCall' = [op |-> "unsubscribe", resp |-> resp, sub |-> sub,
                    out |-> UnsubscribeAVTransport(sub, resp)]
    /\ UNCHANGED <<listenerVars, discoverVars, enrichVars, libCall>>

GenaSubscribe ==
    \E resp \in GenaResponses, timeout \in GenaRequestedTimeouts :
        CallSubscribe(resp, timeout)

GenaRenew ==
    \E sub \in GenaSubscriptions, timeout \in GenaRequestedTimeouts, resp \in GenaResponses :
        CallRenew(sub, timeout, resp)

GenaUnsubscribe ==
    \E sub \in GenaSubscriptions, resp \in GenaResponses : CallUnsubscribe(sub, resp)

NextGena == GenaSubscribe \/ GenaRenew \/ GenaUnsubscribe

SpecGena == Init /\ [][NextGena]_vars

(***************************************************************************)
(* Discover: SSDP responses are read one at a time until the deadline, the *)
(* quiet period or cancellation ends the loop, or a target room matches.   *)
(***************************************************************************)
MaxPackets == 3

StrHttp200 == <<"H","T","T","P","/","1",".","1"," ","2","0","0">>
StrSonosWord == <<"s","o","n","o","s">>
StrZonePlayerWord == <<"z","o","n","e","p","l","a","y","e","r">>
StrRinconWord == <<"r","i","n","c","o","n">>

(***************************************************************************)
(* Device descriptions.                                                    *)
(***************************************************************************)
\* the element names that fill a DeviceMetadata field
MetadataFields ==
    {"deviceType", "friendlyName", "manufacturer", "roomName",
     "modelName", "modelNumber", "serialNumber", "softwareVersion"}

\* the zero DeviceMetadata, by element name
NoMetadata == [field \in MetadataFields |-> <<>>]

\* strings.Contains
Contains(s, sub) ==
    \E i \in 0..(Len(s) - Len(sub)) : SubSeq(s, i + 1, i + Len(sub)) = sub

\* strings.Fields
RECURSIVE Fields(_)
Fields(s) ==
    LET t == TrimLeft(s)
        n == IF \E i \in 1..Len(t) : t[i] \in SpaceChars
             THEN (CHOOSE i \in 1..Len(t) :
                      t[i] \in SpaceChars /\ \A j \in 1..(i - 1) : t[j] \notin SpaceChars) - 1
             ELSE Len(t)
    IN  IF t = <<>> THEN <<>>
        ELSE <<SubSeq(t, 1, n)>> \o Fields(SubSeq(t, n + 1, Len(t)))

\* byte order of the characters that occur in addresses and locations
ByteOrder ==
    <<".", "/", "0", "1", "2", "3", "4", "5", "6", "7", "8", "9", ":">> \o UpperChars \o LowerChars

ByteRank == [c \in {ByteOrder[i] : i \in 1..Len(ByteOrder)} |->
                CHOOSE i \in 1..Len(ByteOrder) : ByteOrder[i] = c]

\* a < b for Go strings
RECURSIVE StringLess(_, _)
StringLess(a, b) ==
    IF b = <<>> THEN FALSE
    ELSE IF a = <<>> THEN TRUE
    ELSE IF Head(a) = Head(b) THEN StringLess(Tail(a), Tail(b))
    ELSE ByteRank[Head(a)] < ByteRank[Head(b)]

canonicalRoomName(value) == ToLower(TrimSpace(value))

looksLikeSonosFromHeaders(device) ==
    \/ Contains(ToLower(device.Server), StrSonosWord)
    \/ Contains(ToLower(device.ST), StrSonosWord)
    \/ Contains(ToLower(device.ST), StrZonePlayerWord)
    \/ Contains(ToLower(device.USN), StrRinconWord)

\* a match on the room header or the friendly name only, without the
\* friendly name shortened by its last word
headerRoomCandidatesExact(device) ==
    LET room     == canonicalRoomName(device.Headers.ROOMNAME)
        friendly == canonicalRoomName(device.Headers.FRIENDLYNAME)
    IN  (IF room # <<>> THEN <<room>> ELSE <<>>)
        \o (IF friendly # <<>> /\ friendly # room THEN <<friendly>> ELSE <<>>)

\* the candidates in the order they are appended; an entry already seen is
\* not appended again
headerRoomCandidates(device) ==
    LET room        == canonicalRoomName(device.Headers.ROOMNAME)
        friendlyRaw == TrimSpace(device.Headers.FRIENDLYNAME)
        friendly    == canonicalRoomName(friendlyRaw)
        parts       == Fields(friendlyRaw)
        base        == canonicalRoomName(Join(SubSeq(parts, 1, Len(parts) - 1), <<" ">>))
        c1          == IF room # <<>> THEN <<room>> ELSE <<>>
        c2          == IF friendlyRaw # <<>> /\ friendly # <<>> /\ friendly # room
                       THEN Append(c1, friendly) ELSE c1
        c3          == IF friendlyRaw # <<>> /\ Len(parts) > 1 /\ base # <<>>
                          /\ \A i \in 1..Len(c2) : c2[i] # base
                       THEN Append(c2, base) ELSE c2
    IN  c3

roomMatchesHeader(device, targetCanonical) ==
    /\ targetCanonical # <<>>
    /\ \E i \in 1..Len(headerRoomCandidates(device)) :
          headerRoomCandidates(device)[i] = targetCanonical

\* A packet is [statusLine, headersOk, headers, ip]: the first line, whether
\* the header block parses, the headers by upper-cased name, and the sender.
parseResponse(packet) ==
    IF ~HasPrefix(ToUpper(packet.statusLine), StrHttp200) THEN [err |-> "status_line"]
    ELSE IF ~packet.headersOk THEN [err |-> "headers"]
    ELSE LET device == [IP |-> <<>>,
                        Location |-> packet.headers.LOCATION,
                        Server |-> packet.headers.SERVER,
                        ST |-> packet.headers.ST,
                        USN |-> packet.headers.USN,
                        Headers |-> packet.headers,
                        Metadata |-> NoMetadata,
                        IsSonos |-> FALSE]
         IN  [err |-> "",
              device |-> [device EXCEPT !.IsSonos = looksLikeSonosFromHeaders(device)]]

\* every device is filed under its address
deviceKeyByAddress(device) == device.IP

\* the key a device is filed under: its USN, or its address without one
deviceKey(device) == IF device.USN = <<>> THEN device.IP ELSE device.USN

\* sort.Slice with this comparison
DeviceLess(a, b) ==
    IF a.IP = b.IP THEN StringLess(a.Location, b.Location) ELSE StringLess(a.IP, b.IP)

\* sort.Slice does not keep the order of elements that compare equal: any
\* arrangement in which no element is less than the one before it can come out
SortOutcomes(list) ==
    {[i \in 1..Len(list) |-> list[perm[i]]] :
        perm \in {f \in [1..Len(list) -> 1..Len(list)] :
                     /\ \A i, j \in 1..Len(list) : i # j => f[i] # f[j]
                     /\ \A i \in 1..(Len(list) - 1) : ~DeviceLess(list[f[i + 1]], list[f[i]])}}

Headers(location, serverHeader, st, usn, room, friendly) ==
    [LOCATION |-> location, SERVER |-> serverHeader, ST |-> st, USN |-> usn,
     ROOMNAME |-> room, FRIENDLYNAME |-> friendly]

Packet(statusLine, headersOk, headers, ip) ==
    [statusLine |-> statusLine, headersOk |-> headersOk, headers |-> headers, ip |-> ip]

StrStatusOK == <<"H","T","T","P","/","1",".","1"," ","2","0","0"," ","O","K">>
StrStatusLower == <<"h","t","t","p","/","1",".","1"," ","2","0","0"," ","o","k">>
StrStatus404 == <<"H","T","T","P","/","1",".","1"," ","4","0","4">>
StrIP1 == <<"1","0",".","1">>
StrIP2 == <<"1","0",".","2">>
StrIP10 == <<"1","0",".","1","0">>
StrLocA == <<"h",":","/","a">>
StrLocB == <<"h",":","/","b">>
StrUsn1 == <<"R","I","N","C","O","N","_","1">>
StrUsn2 == <<"u",":","2">>
StrKitchen == <<"K","i","t","c","h","e","n">>
StrDenPlay == <<"D","e","n"," ","P","l","a","y">>

\* a Sonos player (by its USN) in the kitchen
PktKitchen == Packet(StrStatusOK, TRUE,
                     Headers(StrLocA, <<>>, <<>>, StrUsn1, StrKitchen, <<>>), StrIP2)
\* the same USN from another address, room header in another case
PktKitchenMoved == Packet(StrStatusLower, TRUE,
                          Headers(StrLocB, <<>>, <<>>, StrUsn1, <<" ","K","I","T","C","H","E","N"," ">>, <<>>), StrIP10)
\* a Sonos player (by its search target) at the address and location of
\* PktKitchen, named by its friendly name only
PktDen == Packet(StrStatusOK, TRUE,
                 Headers(StrLocA, <<>>, <<"Z","o","n","e","P","l","a","y","e","r">>, StrUsn2, <<>>, StrDenPlay), StrIP2)
\* not a Sonos device, no USN, room header Kitchen
PktOther == Packet(StrStatusOK, TRUE,
                   Headers(StrLocB, <<"L","i","n","u","x">>, <<>>, <<>>, StrKitchen, <<>>), StrIP1)
PktNot200 == Packet(StrStatus404, TRUE,
                    Headers(StrLocA, <<"S","o","n","o","s">>, <<>>, StrUsn1, StrKitchen, <<>>), StrIP1)
PktMalformed == Packet(StrStatusOK, FALSE,
                       Headers(<<>>, <<>>, <<>>, <<>>, <<>>, <<>>), StrIP1)

Packets == {PktKitchen, PktKitchenMoved, PktDen, PktOther, PktNot200, PktMalformed}

TargetRooms == {<<>>, <<" ">>, <<" ","k","i","t","c","h","e","n">>, <<"D","E","N">>, <<"D","e","n"," ","P","l","a","y">>}

\* Discover up to the read loop: socket creation and the three writes
DiscoverStart(target, outcome) ==
    /\ discoverPc = "idle"
    /\ targetRoom' = target
    /\ IF outcome = "ok"
       THEN discoverPc' = "reading" /\ UNCHANGED discoverOut
       ELSE discoverPc' = "returned" /\ discoverOut' = [devices |-> <<>>, err |-> outcome]
    /\ UNCHANGED <<received, devices, indexByKey>>
    /\ UNCHANGED <<listenerVars, genaCall, enrichVars, libCall>>

\* one iteration of the loop in which ReadFromUDP returns a packet
DiscoverRead(packet) ==
    /\ discoverPc = "reading"
    /\ Len(received) < MaxPackets
    /\ received' = Append(received, packet)
    /\ LET parsed == parseResponse(packet)
           device == [parsed.device EXCEPT !.IP = packet.ip]
           key    == deviceKey(device)
       IN  IF parsed.err # ""
           THEN UNCHANGED <<devices, indexByKey, discoverPc, discoverOut>>
           ELSE IF /\ canonicalRoomName(targetRoom) # <<>>
                   /\ device.IsSonos
                   /\ roomMatchesHeader(device, canonicalRoomName(targetRoom))
           THEN /\ discoverPc' = "returned"
                /\ discoverOut' = [devices |-> <<device>>, err |-> ""]
                /\ UNCHANGED <<devices, indexByKey>>
           ELSE IF \E i \in 1..Len(indexByKey) : indexByKey[i].key = key
           THEN /\ devices' = [devices EXCEPT
                                  ![indexByKey[CHOOSE i \in 1..Len(indexByKey) :
                                        indexByKey[i].key = key].idx] = device]
                /\ UNCHANGED <<indexByKey, discoverPc, discoverOut>>
           ELSE /\ indexByKey' = Append(indexByKey, [key |-> key, idx |-> Len(devices) + 1])
                /\ devices' = Append(devices, device)
                /\ UNCHANGED <<discoverPc, discoverOut>>
    /\ UNCHANGED targetRoom
    /\ UNCHANGED <<listenerVars, genaCall, enrichVars, libCall>>

\* the loop ends: deadline, quiet period or cancellation
DiscoverFinish(sorted) ==
    /\ discoverPc = "reading"
    /\ sorted \in SortOutcomes(devices)
    /\ discoverPc' = "returned"
    /\ discoverOut' = [devices |-> sorted, err |-> ""]
    /\ UNCHANGED <<targetRoom, received, devices, indexByKey>>
    /\ UNCHANGED <<listenerVars, genaCall, enrichVars, libCall>>

\* ReadFromUDP fails with an error that is not a timeout
DiscoverReadError ==
    /\ discoverPc = "reading"
    /\ discoverPc' = "returned"
    /\ discoverOut' = [devices |-> <<>>, err |-> "read"]
    /\ UNCHANGED <<targetRoom, received, devices, indexByKey>>
    /\ UNCHANGED <<listenerVars, genaCall, enrichVars, libCall>>

DiscoverBegin ==
    \E target \in TargetRooms, outcome \in {"ok", "listen", "write"} :
        DiscoverStart(target, outcome)

DiscoverPacket == \E packet \in Packets : DiscoverRead(packet)

DiscoverEnd == \E sorted \in SortOutcomes(devices) : DiscoverFinish(sorted)

NextDiscover == DiscoverBegin \/ DiscoverPacket \/ DiscoverEnd \/ DiscoverReadError

SpecDiscover == Init /\ [][NextDiscover]_vars

(***************************************************************************)
(* Enrichment: the description document of each device is fetched and      *)
(* parsed.  A document is the sequence of tokens xml.Decoder yields for    *)
(* it: [kind, text] with kind "start" or "end" (text is the local name),   *)
(* "chars" (text is the character data) or "error" (a syntax error).       *)
(***************************************************************************)
MaxDevices == 2

\* character data of any descendant of the captured device
isDescendantOfDevice(stack, deviceDepth) == Len(stack) > deviceDepth

\* the innermost open element is a child of the captured device
isChildOfDevice(stack, deviceDepth) == Len(stack) = deviceDepth + 1

RECURSIVE parseTokens(_, _, _, _, _)
parseTokens(tokens, stack, capturing, deviceDepth, meta) ==
    IF tokens = <<>>
    THEN IF meta.deviceType # <<>> \/ meta.friendlyName # <<>>
         THEN [meta |-> meta, err |-> ""]
         ELSE [meta |-> meta, err |-> "missing_device"]
    ELSE LET tok  == Head(tokens)
             rest == Tail(tokens)
         IN  CASE tok.kind = "error" -> [meta |-> meta, err |-> "decode"]
               [] tok.kind = "start" ->
                    LET pushed == Append(stack, tok.text)
                    IN  IF /\ ~capturing
                           /\ Len(pushed) >= 2
                           /\ pushed[Len(pushed) - 1] = "root"
                           /\ tok.text = "device"
                        THEN parseTokens(rest, pushed, TRUE, Len(pushed), meta)
                        ELSE parseTokens(rest, pushed, capturing, deviceDepth, meta)
               [] tok.kind = "end" ->
                    IF capturing /\ tok.text = "device" /\ Len(stack) = deviceDepth
                    THEN [meta |-> meta, err |-> ""]
                    ELSE IF Len(stack) > 0
                    THEN parseTokens(rest, SubSeq(stack, 1, Len(stack) - 1),
                                     capturing, deviceDepth, meta)
                    ELSE parseTokens(rest, stack, capturing, deviceDepth, meta)
               [] OTHER ->
                    IF \/ ~capturing
                       \/ ~isChildOfDevice(stack, deviceDepth)
                       \/ TrimSpace(tok.text) = <<>>
                       \/ stack[Len(stack)] \notin MetadataFields
                    THEN parseTokens(rest, stack, capturing, deviceDepth, meta)
                    ELSE parseTokens(rest, stack, capturing, deviceDepth,
                                     [meta EXCEPT ![stack[Len(stack)]] = TrimSpace(tok.text)])

parseDeviceDescription(body) == parseTokens(body, <<>>, FALSE, 0, NoMetadata)

isSonosDevice(meta) ==
    \/ Contains(ToLower(meta.manufacturer), StrSonosWord)
    \/ Contains(ToLower(meta.deviceType), StrZonePlayerWord)
    \/ Contains(ToLower(meta.deviceType), StrSonosWord)
    \/ Contains(ToLower(meta.modelName), StrSonosWord)

\* the flag follows the document alone
isSonosFromDocumentOnly(device, meta) == isSonosDevice(meta)

\* device.IsSonos || isSonosDevice(meta)
mergedIsSonos(device, meta) == device.IsSonos \/ isSonosDevice(meta)

\* http.NewRequestWithContext rejects a URL that begins with a colon
requestFails(location) == location # <<>> /\ Head(location) = ":"

\* A fetch is what the device's server and the network do with the request:
\* [outcome, status, body], outcome "response", "transport" (client.Do
\* fails), "deadline" (client.Do fails because the caller's context passes
\* its deadline meanwhile) or "read" (the body cannot be read).
enrichMetadata(device, fetch) ==
    IF device.Location = <<>> THEN [device |-> device, err |-> ""]
    ELSE IF requestFails(device.Location) THEN [device |-> device, err |-> "create_request"]
    ELSE IF fetch.outcome = "transport" THEN [device |-> device, err |-> "fetch"]
    ELSE IF fetch.outcome = "deadline" THEN [device |-> device, err |-> "fetch_deadline"]
    ELSE IF fetch.status # 200 THEN [device |-> device, err |-> "http_status"]
    ELSE IF fetch.outcome = "read" THEN [device |-> device, err |-> "read_body"]
    ELSE LET parsed == parseDeviceDescription(fetch.body)
         IN  IF parsed.err # "" THEN [device |-> device, err |-> parsed.err]
             ELSE [device |-> [device EXCEPT !.Metadata = parsed.meta,
                                             !.IsSonos = mergedIsSonos(device, parsed.meta)],
                   err |-> ""]

Token(kind, text) == [kind |-> kind, text |-> text]

\* <name>text</name>
Element(name, text) == <<Token("start", name), Token("chars", text), Token("end", name)>>

\* <root><device> fields </device></root>
Description(fields) ==
    <<Token("start", "root"), Token("start", "device")>> \o fields
        \o <<Token("end", "device"), Token("end", "root")>>

DocSonos ==
    Description(Element("deviceType", <<"Z","o","n","e","P","l","a","y","e","r">>) \o Element("friendlyName", <<" ","K","i","t","c","h","e","n"," ">>)
                \o Element("manufacturer", <<"S","o","n","o","s">>) \o Element("roomName", <<"K","i","t","c","h","e","n">>))
DocOther ==
    Description(Element("deviceType", <<"B","a","s","i","c">>) \o Element("friendlyName", <<"G","e","n","e","r","i","c">>)
                \o Element("manufacturer", <<"A","c","m","e">>) \o Element("roomName", <<"D","e","n">>))
\* a generic outer device with a Sonos device nested in its device list
DocNested ==
    Description(Element("friendlyName", <<"H","u","b">>)
                \o <<Token("start", "deviceList"), Token("start", "device")>>
                \o Element("manufacturer", <<"S","o","n","o","s">>)
                \o <<Token("end", "device"), Token("end", "deviceList")>>)
\* no device under the root
DocNoDevice == <<Token("start", "root")>> \o Element("URLBase", <<"h",":","/">>) \o <<Token("end", "root")>>
\* a syntax error after the manufacturer
DocBroken ==
    <<Token("start", "root"), Token("start", "device")>>
        \o Element("manufacturer", <<"S","o","n","o","s">>) \o <<Token("error", <<>>)>>

Documents == {DocSonos, DocOther, DocNested, DocNoDevice, DocBroken}

Fetch(outcome, status, body) == [outcome |-> outcome, status |-> status, body |-> body]

Fetches ==
    {Fetch("transport", 0, <<>>), Fetch("deadline", 0, <<>>), Fetch("read", 200, <<>>),
     Fetch("response", 404, DocSonos)}
        \cup {Fetch("response", 200, body) : body \in Documents}

DeviceAt(ip, location, isSonos) ==
    [IP |-> ip, Location |-> location, Server |-> <<>>, ST |-> <<>>, USN |-> <<>>,
     Headers |-> Headers(location, <<>>, <<>>, <<>>, <<>>, <<>>),
     Metadata |-> NoMetadata, IsSonos |-> isSonos]

EnrichDevicePool ==
    {DeviceAt(StrIP1, StrLocA, TRUE), DeviceAt(StrIP2, StrLocB, FALSE),
     DeviceAt(StrIP10, <<>>, FALSE), DeviceAt(StrIP1, <<":","a">>, TRUE)}

EnrichInputs ==
    UNION {[1..n -> EnrichDevicePool] : n \in 0..MaxDevices}

\* EnrichDevices up to its loop
EnrichStart(input) ==
    /\ enrichPc = "idle"
    /\ enrichInput' = input
    /\ enriched' = input
    /\ firstErr' = ""
    /\ enrichI' = 1
    /\ enrichPc' = "loop"
    /\ UNCHANGED <<ctxErr, enrichOut>>
    /\ UNCHANGED <<listenerVars, genaCall, discoverVars, libCall>>

\* the caller's context is cancelled or passes its deadline between two
\* iterations, or before the call
ContextDone(reason) ==
    /\ enrichPc \in {"idle", "loop"}
    /\ ctxErr = ""
    /\ ctxErr' = reason
    /\ UNCHANGED <<enrichInput, enriched, firstErr, enrichI, enrichPc, enrichOut>>
    /\ UNCHANGED <<listenerVars, genaCall, discoverVars, libCall>>

\* one iteration of the loop
EnrichIteration(fetch) ==
    /\ enrichPc = "loop"
    /\ enrichI <= Len(enriched)
    /\ IF ctxErr # ""
       THEN /\ enrichPc' = "returned"
            /\ enrichOut' = [devices |-> enriched, err |-> ctxErr]
            /\ UNCHANGED <<ctxErr, enriched, firstErr, enrichI>>
       ELSE LET result == enrichMetadata(enriched[enrichI], fetch)
            IN  /\ IF result.err # ""
                   THEN /\ firstErr' = IF firstErr = "" THEN result.err ELSE firstErr
                        /\ UNCHANGED enriched
                   ELSE /\ enriched' = [enriched EXCEPT ![enrichI] = result.device]
                        /\ UNCHANGED firstErr
                /\ ctxErr' = IF /\ fetch.outcome = "deadline"
                                /\ enriched[enrichI].Location # <<>>
                                /\ ~requestFails(enriched[enrichI].Location)
                             THEN "deadline" ELSE ctxErr
                /\ enrichI' = enrichI + 1
                /\ UNCHANGED <<enrichPc, enrichOut>>
    /\ UNCHANGED enrichInput
    /\ UNCHANGED <<listenerVars, genaCall, discoverVars, libCall>>

\* the loop is over
EnrichReturn ==
    /\ enrichPc = "loop"
    /\ enrichI > Len(enriched)
    /\ enrichPc' = "returned"
    /\ enrichOut' = [devices |-> enriched, err |-> firstErr]
    /\ UNCHANGED <<ctxErr, enrichInput, enriched, firstErr, enrichI>>
    /\ UNCHANGED <<listenerVars, genaCall, discoverVars, libCall>>

EnrichBegin == \E input \in EnrichInputs : EnrichStart(input)

EnrichContext == \E reason \in {"deadline", "canceled"} : ContextDone(reason)

EnrichNext == \E fetch \in Fetches : EnrichIteration(fetch)

NextEnrich == EnrichBegin \/ EnrichContext \/ EnrichNext \/ EnrichReturn

SpecEnrich == Init /\ [][NextEnrich]_vars

(***************************************************************************)
(* parseDeviceDescription called on its own.  The documents are            *)
(* <root> prologue <device> parts </device></root>, each part a field of   *)
(* the device, a device nested in a deviceList, or a device nested         *)
(* directly.                                                               *)
(***************************************************************************)
MaxParts == 3

FieldPart(name, text) == [part |-> "field", name |-> name, text |-> text]

\* a nested device with a friendlyName, a roomName and a deviceType
NestedPart(part, friendly, room, type) ==
    [part |-> part, friendlyName |-> friendly, roomName |-> room, deviceType |-> type]

DescriptionParts ==
    {FieldPart("friendlyName", <<" ","H","u","b"," ">>), FieldPart("roomName", <<"D","e","n">>),
     FieldPart("deviceType", <<"B","a","s","i","c">>), FieldPart("manufacturer", <<"A","c","m","e">>),
     NestedPart("listed", <<"N","e","s","t","e","d">>, <<"A","t","t","i","c">>, <<"S","e","r","v","e","r">>),
     NestedPart("child", <<"I","n","n","e","r">>, <<"C","e","l","l","a","r">>, <<"R","e","n","d","e","r">>)}

\* the tokens of one part
PartTokens(part) ==
    IF part.part = "field" THEN Element(part.name, part.text)
    ELSE LET nested == <<Token("start", "device")>>
                          \o Element("deviceType", part.deviceType)
                          \o Element("friendlyName", part.friendlyName)
                          \o Element("roomName", part.roomName)
                          \o <<Token("end", "device")>>
         IN  IF part.part = "listed"
             THEN <<Token("start", "deviceList")>> \o nested \o <<Token("end", "deviceList")>>
             ELSE nested

RECURSIVE PartsTokens(_)
PartsTokens(parts) ==
    IF parts = <<>> THEN <<>> ELSE PartTokens(Head(parts)) \o PartsTokens(Tail(parts))

\* <specVersion><major>1</major></specVersion>, white space between elements
SpecVersionTokens ==
    <<Token("chars", <<"\n", " ">>), Token("start", "specVersion")>>
        \o Element("major", <<"1">>) \o <<Token("end", "specVersion")>>

\* the document with a top-level device made of the parts
DeviceDocument(parts) ==
    <<Token("start", "root")>> \o SpecVersionTokens \o <<Token("start", "device")>>
        \o PartsTokens(parts) \o <<Token("end", "device"), Token("end", "root")>>

DescriptionInputs == UNION {[1..n -> DescriptionParts] : n \in 0..MaxParts}

CallParseDeviceDescription(parts) ==
    /\ libCall = NoCall
    /\ libCall' = [op |-> "parseDeviceDescription", parts |-> parts,
                    out |-> parseDeviceDescription(DeviceDocument(parts))]
    /\ UNCHANGED <<listenerVars, genaCall, discoverVars, enrichVars>>

\* documents that are not a root with a device in it
CallParseOtherDocument(body) ==
    /\ libCall = NoCall
    /\ libCall' = [op |-> "parseDeviceDescription", body |-> body,
                    out |-> parseDeviceDescription(body)]
    /\ UNCHANGED <<listenerVars, genaCall, discoverVars, enrichVars>>

ParseDescription == \E parts \in DescriptionInputs : CallParseDeviceDescription(parts)

ParseOther == \E body \in Documents : CallParseOtherDocument(body)

NextDescription == ParseDescription \/ ParseOther

SpecDescription == Init /\ [][NextDescription]_vars

(***************************************************************************)
(* Entity handling.  The loops over the bytes of a string are written as   *)
(* a step on the loop's variables and a driver that applies the step to    *)
(* every index in turn, halving the range.                                 *)
(***************************************************************************)
MaxPieces == 3

DigitSet == {DigitChars[i] : i \in 1..Len(DigitChars)}

HexDigitChars == DigitSet \cup {"a", "b", "c", "d", "e", "f", "A", "B", "C", "D", "E", "F"}

AlnumChars == DigitSet \cup UpperSet \cup LowerSet

StrAmpEntity == <<"&","a","m","p",";">>

isHexDigit(r) == r \in HexDigitChars

EntityTerminators == {" ", "\t", "\n", "\r", "<", ">", "\"", "'"}

isEntityTerminator(ch) == ch \in EntityTerminators

isValidEntityName(name) ==
    IF name = <<>> THEN FALSE
    ELSE IF name[1] = "#"
    THEN IF Len(name) = 1 THEN FALSE
         ELSE IF name[2] \in {"x", "X"}
         THEN Len(name) > 2 /\ \A k \in 3..Len(name) : isHexDigit(name[k])
         ELSE \A k \in 2..Len(name) : IsDigit(name[k])
    ELSE \A k \in 1..Len(name) : name[k] \in AlnumChars

\* the least index from i on whose byte is in the set, Len(s) + 1 without one
IndexOfAny(s, i, set) ==
    LET hits == {j \in i..Len(s) : s[j] \in set}
    IN  IF hits = {} THEN Len(s) + 1
        ELSE CHOOSE j \in hits : \A k \in hits : j <= k

\* the body of the loop of sanitizeInvalidEntities at index i; the loop's
\* variables are the builder b and the index the loop goes on from
sanitizeStep(s, i, st) ==
    IF i < st.next THEN st
    ELSE IF s[i] # "&" THEN [b |-> Append(st.b, s[i]), next |-> i + 1]
    ELSE IF i + 1 > Len(s) THEN [b |-> st.b \o StrAmpEntity, next |-> i + 1]
    ELSE LET j == IndexOfAny(s, i + 1, {";", "&"} \cup EntityTerminators)
         IN  IF j <= Len(s) /\ s[j] = ";" /\ isValidEntityName(SubSeq(s, i + 1, j - 1))
             THEN [b |-> st.b \o SubSeq(s, i, j), next |-> j + 1]
             ELSE [b |-> st.b \o StrAmpEntity, next |-> i + 1]

RECURSIVE sanitizeLoop(_, _, _, _)
sanitizeLoop(s, lo, hi, st) ==
    IF lo > hi THEN st
    ELSE IF lo = hi THEN sanitizeStep(s, lo, st)
    ELSE LET left == sanitizeLoop(s, lo, (lo + hi) \div 2, st)
         IN  IF left.next > hi THEN left
             ELSE sanitizeLoop(s, ((lo + hi) \div 2) + 1, hi, left)

sanitizeInvalidEntities(s) ==
    IF \A i \in 1..Len(s) : s[i] # "&" THEN s
    ELSE sanitizeLoop(s, 1, Len(s), [b |-> <<>>, next |-> 1]).b

StrRockAndRoll == <<"R","o","c","k"," ","&","v","i","b","e"," ","&"," ","R","o","l","l"," ","&">>

SanitizePieces ==
    {<<"&">>, <<";">>, <<" ">>, <<"R","o","c","k">>, <<"&","a","m","p",";">>, <<"&","a","m","p">>, <<"&","l","t",";">>, <<"&","v","i","b","e">>, <<"&","v","i","b","e",";">>, <<"&","R","o","l","l"," ","1",";">>,
     <<"&","#","3","8",";">>, <<"&","#","x","2","F",";">>, <<"&","#",";">>, <<"&","#","x",";">>, <<"&","#","x","G","1",";">>, <<"&","#","3","a",";">>, <<"&",";">>}

RECURSIVE Concat(_)
Concat(pieces) == IF pieces = <<>> THEN <<>> ELSE Head(pieces) \o Concat(Tail(pieces))

SanitizeInputs ==
    {StrRockAndRoll}
        \cup {Concat(pieces) : pieces \in UNION {[1..n -> SanitizePieces] : n \in 0..MaxPieces}}

CallSanitize(s) ==
    /\ libCall = NoCall
    /\ libCall' = [op |-> "sanitizeInvalidEntities", s |-> s,
                   out |-> sanitizeInvalidEntities(s)]
    /\ UNCHANGED <<listenerVars, genaCall, discoverVars, enrichVars>>

NextSanitize == \E s \in SanitizeInputs : CallSanitize(s)

SpecSanitize == Init /\ [][NextSanitize]_vars

(***************************************************************************)
(* Text repair of LastChange values.                                       *)
(***************************************************************************)
\* the printable ASCII characters, from code 32 on (the grave accent is
\* written by its code point)
AsciiChars == <<" ","!","\"","#","$","%","&","'","(",")","*","+",",","-",".","/","0","1","2","3","4","5","6","7","8","9",":",";","<","=",">","?","@","A","B","C","D","E","F","G","H","I","J","K","L","M","N","O","P","Q","R","S","T","U","V","W","X","Y","Z","[","\\","]","^","_","U+0060","a","b","c","d","e","f","g","h","i","j","k","l","m","n","o","p","q","r","s","t","u","v","w","x","y","z","{","|","}","~">>

\* the character of a code point; code points outside printable ASCII are
\* not told apart
CharOfCode(x) ==
    IF x >= 32 /\ x <= 126 THEN AsciiChars[x - 31]
    ELSE IF x = 9 THEN "\t" ELSE IF x = 10 THEN "\n" ELSE IF x = 13 THEN "\r"
    ELSE "U+FFFD"

HexVal(c) ==
    IF IsDigit(c) THEN DigitVal(c)
    ELSE IF c \in {"a", "A"} THEN 10 ELSE IF c \in {"b", "B"} THEN 11
    ELSE IF c \in {"c", "C"} THEN 12 ELSE IF c \in {"d", "D"} THEN 13
    ELSE IF c \in {"e", "E"} THEN 14 ELSE 15

RECURSIVE NumberIn(_, _)
NumberIn(digits, base) ==
    IF digits = <<>> THEN 0
    ELSE NumberIn(SubSeq(digits, 1, Len(digits) - 1), base) * base
            + HexVal(digits[Len(digits)])

\* the least index from i on whose byte is not in the set, Len(s) + 1 without one
IndexOfNone(s, i, set) ==
    LET hits == {j \in i..Len(s) : s[j] \notin set}
    IN  IF hits = {} THEN Len(s) + 1
        ELSE CHOOSE j \in hits : \A k \in hits : j <= k

\* the names html.UnescapeString knows, of which the model keeps the five
\* of XML; amp, lt, gt and quot are also known without their semicolon
HtmlEntity(name) ==
    CASE name \in {<<"a","m","p",";">>, <<"a","m","p">>} -> "&"
      [] name \in {<<"l","t",";">>, <<"l","t">>} -> "<"
      [] name \in {<<"g","t",";">>, <<"g","t">>} -> ">"
      [] name \in {<<"q","u","o","t",";">>, <<"q","u","o","t">>} -> "\""
      [] name = <<"a","p","o","s",";">> -> "'"
      [] OTHER -> ""

\* html.unescapeEntity at the & at index i: the text written and the index
\* after the bytes consumed
unescapeEntity(s, i) ==
    LET literal == [text |-> <<"&">>, next |-> i + 1]
    IN  IF i + 1 > Len(s) THEN literal
        ELSE IF s[i + 1] = "#"
        THEN IF Len(s) - i + 1 <= 3 THEN literal
             ELSE LET hex    == s[i + 2] \in {"x", "X"}
                      first  == IF hex THEN i + 3 ELSE i + 2
                      stop   == IndexOfNone(s, first, IF hex THEN HexDigitChars ELSE DigitSet)
                      used   == IF stop <= Len(s) /\ s[stop] = ";" THEN stop + 1 ELSE stop
                      code   == NumberIn(SubSeq(s, first, stop - 1), IF hex THEN 16 ELSE 10)
                  IN  IF used - i <= 3 THEN literal
                      ELSE [text |-> <<CharOfCode(code)>>, next |-> used]
        ELSE LET stop == IndexOfNone(s, i + 1, AlnumChars)
                 used == IF stop <= Len(s) /\ s[stop] = ";" THEN stop + 1 ELSE stop
                 name == SubSeq(s, i + 1, used - 1)
                 lens == {n \in 2..(Len(name) - 1) : n <= 6 /\ HtmlEntity(SubSeq(name, 1, n)) # ""}
                 best == CHOOSE n \in lens : \A m \in lens : m <= n
             IN  IF name = <<>> THEN literal
                 ELSE IF HtmlEntity(name) # ""
                 THEN [text |-> <<HtmlEntity(name)>>, next |-> used]
                 ELSE IF lens # {}
                 THEN [text |-> <<HtmlEntity(SubSeq(name, 1, best))>>, next |-> i + 1 + best]
                 ELSE literal

\* one byte of html.UnescapeString
unescapeStep(s, i, st) ==
    IF i < st.next THEN st
    ELSE IF s[i] # "&" THEN [b |-> Append(st.b, s[i]), next |-> i + 1]
    ELSE [b |-> st.b \o unescapeEntity(s, i).text, next |-> unescapeEntity(s, i).next]

RECURSIVE unescapeLoop(_, _, _, _)
unescapeLoop(s, lo, hi, st) ==
    IF lo > hi THEN st
    ELSE IF lo = hi THEN unescapeStep(s, lo, st)
    ELSE LET left == unescapeLoop(s, lo, (lo + hi) \div 2, st)
         IN  IF left.next > hi THEN left
             ELSE unescapeLoop(s, ((lo + hi) \div 2) + 1, hi, left)

\* html.UnescapeString
UnescapeString(s) == unescapeLoop(s, 1, Len(s), [b |-> <<>>, next |-> 1]).b

\* one byte of strings.ReplaceAll
replaceStep(s, i, old, new, st) ==
    IF i < st.next THEN st
    ELSE IF i + Len(old) - 1 <= Len(s) /\ SubSeq(s, i, i + Len(old) - 1) = old
    THEN [b |-> st.b \o new, next |-> i + Len(old)]
    ELSE [b |-> Append(st.b, s[i]), next |-> i + 1]

RECURSIVE replaceLoop(_, _, _, _, _, _)
replaceLoop(s, lo, hi, old, new, st) ==
    IF lo > hi THEN st
    ELSE IF lo = hi THEN replaceStep(s, lo, old, new, st)
    ELSE LET left == replaceLoop(s, lo, (lo + hi) \div 2, old, new, st)
         IN  IF left.next > hi THEN left
             ELSE replaceLoop(s, ((lo + hi) \div 2) + 1, hi, old, new, left)

\* strings.ReplaceAll with a non-empty old
ReplaceAll(s, old, new) == replaceLoop(s, 1, Len(s), old, new, [b |-> <<>>, next |-> 1]).b

\* the entity written for a quote inside an attribute value
QuoteEntity(ch) == IF ch = "\"" THEN <<"&","q","u","o","t",";">> ELSE <<"&","a","p","o","s",";">>

\* an escapeStep that ends the value at its own quote whatever the depth
escapeStepShallow(s, i, st) ==
    LET ch == s[i]
    IN  IF ~st.inAttr
        THEN IF ch \in {"\"", "'"}
             THEN [st EXCEPT !.inAttr = TRUE, !.attrQuote = ch, !.b = Append(st.b, ch)]
             ELSE [st EXCEPT !.b = Append(st.b, ch)]
        ELSE CASE ch \in {"\"", "'"} ->
                    IF st.nestedAttrQuote # ""
                    THEN [st EXCEPT !.nestedAttrQuote = IF ch = st.nestedAttrQuote THEN "" ELSE st.nestedAttrQuote,
                                    !.b = st.b \o QuoteEntity(ch)]
                    ELSE IF st.inNestedTag
                    THEN [st EXCEPT !.nestedAttrQuote = ch, !.b = st.b \o QuoteEntity(ch)]
                    ELSE IF ch = st.attrQuote
                    THEN [st EXCEPT !.inAttr = FALSE, !.b = Append(st.b, ch)]
                    ELSE [st EXCEPT !.b = st.b \o QuoteEntity(ch)]
               [] ch = "&" -> [st EXCEPT !.b = st.b \o StrAmpEntity]
               [] ch = "<" ->
                    IF i + 1 <= Len(s) /\ s[i + 1] = "/"
                    THEN [st EXCEPT !.nestedDepth = IF st.nestedDepth > 0 THEN st.nestedDepth - 1 ELSE 0,
                                    !.inNestedTag = TRUE,
                                    !.b = st.b \o <<"&","l","t",";">>]
                    ELSE [st EXCEPT !.nestedDepth = st.nestedDepth + 1,
                                    !.inNestedTag = TRUE,
                                    !.b = st.b \o <<"&","l","t",";">>]
               [] ch = ">" ->
                    [st EXCEPT !.inNestedTag = FALSE,
                               !.nestedDepth = IF st.nestedDepth > 0 /\ i > 1 /\ s[i - 1] = "/"
                                               THEN st.nestedDepth - 1 ELSE st.nestedDepth,
                               !.b = st.b \o <<"&","g","t",";">>]
               [] OTHER -> [st EXCEPT !.b = Append(st.b, ch)]

\* the body of the loop of escapeAttributeMarkup at index i; attrQuote and
\* nestedAttrQuote are "" for the zero byte
escapeStep(s, i, st) ==
    LET ch == s[i]
    IN  IF ~st.inAttr
        THEN IF ch \in {"\"", "'"}
             THEN [st EXCEPT !.inAttr = TRUE, !.attrQuote = ch, !.b = Append(st.b, ch)]
             ELSE [st EXCEPT !.b = Append(st.b, ch)]
        ELSE CASE ch \in {"\"", "'"} ->
                    IF st.nestedAttrQuote # ""
                    THEN [st EXCEPT !.nestedAttrQuote = IF ch = st.nestedAttrQuote THEN "" ELSE st.nestedAttrQuote,
                                    !.b = st.b \o QuoteEntity(ch)]
                    ELSE IF st.inNestedTag
                    THEN [st EXCEPT !.nestedAttrQuote = ch, !.b = st.b \o QuoteEntity(ch)]
                    ELSE IF ch = st.attrQuote /\ st.nestedDepth = 0
                    THEN [st EXCEPT !.inAttr = FALSE, !.b = Append(st.b, ch)]
                    ELSE [st EXCEPT !.b = st.b \o QuoteEntity(ch)]
               [] ch = "&" -> [st EXCEPT !.b = st.b \o StrAmpEntity]
               [] ch = "<" ->
                    IF i + 1 <= Len(s) /\ s[i + 1] = "/"
                    THEN [st EXCEPT !.nestedDepth = IF st.nestedDepth > 0 THEN st.nestedDepth - 1 ELSE 0,
                                    !.inNestedTag = TRUE,
                                    !.b = st.b \o <<"&","l","t",";">>]
                    ELSE [st EXCEPT !.nestedDepth = st.nestedDepth + 1,
                                    !.inNestedTag = TRUE,
                                    !.b = st.b \o <<"&","l","t",";">>]
               [] ch = ">" ->
                    [st EXCEPT !.inNestedTag = FALSE,
                               !.nestedDepth = IF st.nestedDepth > 0 /\ i > 1 /\ s[i - 1] = "/"
                                               THEN st.nestedDepth - 1 ELSE st.nestedDepth,
                               !.b = st.b \o <<"&","g","t",";">>]
               [] OTHER -> [st EXCEPT !.b = Append(st.b, ch)]

\* the bytes from lo to hi in order; every byte writes at least one, so the
\* left half is never cut short
RECURSIVE escapeLoop(_, _, _, _)
escapeLoop(s, lo, hi, st) ==
    IF lo > hi THEN st
    ELSE IF lo = hi THEN escapeStep(s, lo, st)
    ELSE LET left == escapeLoop(s, lo, (lo + hi) \div 2, st)
         IN  IF Len(left.b) < lo - 1 THEN left
             ELSE escapeLoop(s, ((lo + hi) \div 2) + 1, hi, left)

escapeAttributeMarkup(s) ==
    escapeLoop(s, 1, Len(s),
               [b |-> <<>>, inAttr |-> FALSE, attrQuote |-> "", nestedDepth |-> 0,
                inNestedTag |-> FALSE, nestedAttrQuote |-> ""]).b

placeholderQuot == <<"_","_","S","O","N","O","S","_","A","T","T","R","_","Q","U","O","T","_","_">>

placeholderApos == <<"_","_","S","O","N","O","S","_","A","T","T","R","_","A","P","O","S","_","_">>

prepareLastChangeXML(raw) ==
    LET temp1    == ReplaceAll(raw, <<"&","a","m","p",";","q","u","o","t",";">>, placeholderQuot)
        temp     == ReplaceAll(temp1, <<"&","a","m","p",";","a","p","o","s",";">>, placeholderApos)
        decoded1 == UnescapeString(temp)
        decoded2 == ReplaceAll(decoded1, placeholderQuot, <<"&","q","u","o","t",";">>)
        decoded  == ReplaceAll(decoded2, placeholderApos, <<"&","a","p","o","s",";">>)
        escaped  == escapeAttributeMarkup(decoded)
    IN  sanitizeInvalidEntities(escaped)

(***************************************************************************)
(* The strict decoder of encoding/xml, for documents of elements,          *)
(* attributes, character data and processing instructions (comments, CDATA *)
(* sections and directives are not among the inputs).                      *)
(***************************************************************************)
NameChars == AlnumChars \cup {"_", ":", ".", "-"}

XmlEntityNames == {<<"l","t">>, <<"g","t">>, <<"a","m","p">>, <<"a","p","o","s">>, <<"q","u","o","t">>}

XmlEntity(name) ==
    CASE name = <<"l","t">> -> "<" [] name = <<"g","t">> -> ">" [] name = <<"a","m","p">> -> "&"
      [] name = <<"a","p","o","s">> -> "'" [] OTHER -> "\""

\* the code points a document may hold
isInCharacterRange(x) == x \in {9, 10, 13} \/ (x >= 32 /\ x <= 55295)

\* the reference that starts at the & at index i: whether it is valid, the
\* text it stands for and the index after its semicolon
xmlReference(s, i) ==
    IF i + 1 <= Len(s) /\ s[i + 1] = "#"
    THEN LET hex   == i + 2 <= Len(s) /\ s[i + 2] = "x"
             first == IF hex THEN i + 3 ELSE i + 2
             stop  == IndexOfNone(s, first, IF hex THEN HexDigitChars ELSE DigitSet)
             code  == NumberIn(SubSeq(s, first, stop - 1), IF hex THEN 16 ELSE 10)
         IN  IF stop > first /\ stop <= Len(s) /\ s[stop] = ";"
                /\ isInCharacterRange(code)
             THEN [ok |-> TRUE, text |-> <<CharOfCode(code)>>, next |-> stop + 1]
             ELSE [ok |-> FALSE, text |-> <<>>, next |-> i + 1]
    ELSE LET stop == IndexOfNone(s, i + 1, NameChars)
             name == SubSeq(s, i + 1, stop - 1)
         IN  IF stop <= Len(s) /\ s[stop] = ";" /\ name \in XmlEntityNames
             THEN [ok |-> TRUE, text |-> <<XmlEntity(name)>>, next |-> stop + 1]
             ELSE [ok |-> FALSE, text |-> <<>>, next |-> i + 1]

\* one byte of Decoder.text; a < is an error inside a quoted value only, the
\* character data handed over never holds one
xmlTextStep(s, i, st) ==
    IF ~st.ok \/ i < st.next THEN st
    ELSE IF s[i] = "<" THEN [st EXCEPT !.ok = FALSE]
    ELSE IF s[i] # "&" THEN [st EXCEPT !.b = Append(st.b, s[i]), !.next = i + 1]
    ELSE LET ref == xmlReference(s, i)
         IN  IF ref.ok THEN [st EXCEPT !.b = st.b \o ref.text, !.next = ref.next]
             ELSE [st EXCEPT !.ok = FALSE]

RECURSIVE xmlTextLoop(_, _, _, _)
xmlTextLoop(s, lo, hi, st) ==
    IF lo > hi THEN st
    ELSE IF lo = hi THEN xmlTextStep(s, lo, st)
    ELSE LET left == xmlTextLoop(s, lo, (lo + hi) \div 2, st)
         IN  IF ~left.ok THEN left
             ELSE xmlTextLoop(s, ((lo + hi) \div 2) + 1, hi, left)

\* Decoder.text: the decoded text, or ok = FALSE for a syntax error
xmlText(s) == xmlTextLoop(s, 1, Len(s), [b |-> <<>>, next |-> 1, ok |-> TRUE])

\* Decoder.nsname: a name is split at its colon when both sides are there
nsname(raw) ==
    LET colons == {k \in 1..Len(raw) : raw[k] = ":"}
        k      == CHOOSE c \in colons : TRUE
    IN  IF Cardinality(colons) = 1 /\ 1 \notin colons /\ Len(raw) \notin colons
        THEN [space |-> SubSeq(raw, 1, k - 1), local |-> SubSeq(raw, k + 1, Len(raw))]
        ELSE [space |-> <<>>, local |-> raw]

xmlURL == <<"h","t","t","p",":","/","/","w","w","w",".","w","3",".","o","r","g","/","X","M","L","/","1","9","9","8","/","n","a","m","e","s","p","a","c","e">>

\* the URI bound to a prefix by the bindings in force, the last one winning
Bound(ns, prefix) == {k \in 1..Len(ns) : ns[k].prefix = prefix}

\* Decoder.translate
translate(n, ns, isElementName) ==
    IF n.space = <<"x","m","l","n","s">> THEN n
    ELSE IF n.space = <<>> /\ ~isElementName THEN n
    ELSE IF n.space = <<"x","m","l">> THEN [n EXCEPT !.space = xmlURL]
    ELSE IF n.space = <<>> /\ n.local = <<"x","m","l","n","s">> THEN n
    ELSE IF Bound(ns, n.space) # {}
    THEN [n EXCEPT !.space = ns[CHOOSE k \in Bound(ns, n.space) :
                                \A m \in Bound(ns, n.space) : m <= k].uri]
    ELSE n

\* the attributes of a start tag from index i on: ok = FALSE for a syntax
\* error, otherwise the attributes, whether the tag closes itself and the
\* index of its >
RECURSIVE xmlAttrs(_, _, _)
xmlAttrs(s, i, acc) ==
    LET at    == IndexOfNone(s, i, SpaceChars)
        bad   == [ok |-> FALSE, attrs |-> acc, empty |-> FALSE, to |-> at]
        stop  == IndexOfNone(s, at, NameChars)
        eq    == IndexOfNone(s, stop, SpaceChars)
        quote == IndexOfNone(s, eq + 1, SpaceChars)
        close == IndexOfAny(s, quote + 1, {s[quote]})
        value == xmlText(SubSeq(s, quote + 1, close - 1))
    IN  IF at > Len(s) THEN bad
        ELSE IF s[at] = "/"
        THEN IF at + 1 <= Len(s) /\ s[at + 1] = ">"
             THEN [ok |-> TRUE, attrs |-> acc, empty |-> TRUE, to |-> at + 1]
             ELSE bad
        ELSE IF s[at] = ">"
        THEN [ok |-> TRUE, attrs |-> acc, empty |-> FALSE, to |-> at]
        ELSE IF stop = at \/ eq > Len(s) \/ s[eq] # "=" THEN bad
        ELSE IF quote > Len(s) \/ s[quote] \notin {"\"", "'"} THEN bad
        ELSE IF close > Len(s) \/ ~value.ok THEN bad
        ELSE xmlAttrs(s, close + 1,
                      Append(acc, [name  |-> nsname(SubSeq(s, at, stop - 1)),
                                   value |-> value.b]))

\* the bindings a start tag adds, in the order of its attributes
RECURSIVE Bindings(_)
Bindings(attrs) ==
    IF attrs = <<>> THEN <<>>
    ELSE LET a == attrs[1]
         IN  (IF a.name.space = <<"x","m","l","n","s">>
              THEN <<[prefix |-> a.name.local, uri |-> a.value]>>
              ELSE IF a.name.space = <<>> /\ a.name.local = <<"x","m","l","n","s">>
              THEN <<[prefix |-> <<>>, uri |-> a.value]>>
              ELSE <<>>) \o Bindings(Tail(attrs))

NoName == [space |-> <<>>, local |-> <<>>]

XmlToken(kind, name, attrs, text, from, to, path) ==
    [kind |-> kind, name |-> name, attrs |-> attrs, text |-> text,
     from |-> from, to |-> to, path |-> path]

\* the local names of the open elements, outermost first
OpenPath(open) == [k \in 1..Len(open) |-> nsname(open[k].raw).local]

SyntaxError(st, i) ==
    [st EXCEPT !.err = TRUE,
               !.tokens = Append(st.tokens,
                   XmlToken("error", NoName, <<>>, <<>>, i, i, OpenPath(st.open)))]

\* Decoder.rawToken and Decoder.Token at index i: the token that starts
\* there, if the tokens before it did not reach past i
xmlStep(s, i, st) ==
    IF st.err \/ i < st.next THEN st
    ELSE IF s[i] # "<"
    THEN LET stop == IndexOfAny(s, i, {"<"})
             data == xmlText(SubSeq(s, i, stop - 1))
         IN  IF ~data.ok THEN SyntaxError(st, i)
             ELSE [st EXCEPT !.next = stop,
                             !.tokens = Append(st.tokens,
                                 XmlToken("chars", NoName, <<>>, data.b, i, stop - 1,
                                          OpenPath(st.open)))]
    ELSE IF i + 1 > Len(s) THEN SyntaxError(st, i)
    ELSE IF s[i + 1] = "/"
    THEN LET stop  == IndexOfNone(s, i + 2, NameChars)
             close == IndexOfNone(s, stop, SpaceChars)
             raw   == SubSeq(s, i + 2, stop - 1)
         IN  IF stop = i + 2 \/ close > Len(s) \/ s[close] # ">" THEN SyntaxError(st, i)
             ELSE IF st.open = <<>> THEN SyntaxError(st, i)
             ELSE IF st.open[Len(st.open)].raw # raw THEN SyntaxError(st, i)
             ELSE [st EXCEPT !.next = close + 1,
                             !.open = SubSeq(st.open, 1, Len(st.open) - 1),
                             !.tokens = Append(st.tokens,
                                 XmlToken("end",
                                          translate(nsname(raw), st.open[Len(st.open)].ns, TRUE),
                                          <<>>, <<>>, i, close, OpenPath(st.open)))]
    ELSE IF s[i + 1] = "?"
    THEN LET ends == {k \in (i + 2)..(Len(s) - 1) : s[k] = "?" /\ s[k + 1] = ">"}
             stop == CHOOSE k \in ends : \A m \in ends : k <= m
         IN  IF ends = {} THEN SyntaxError(st, i)
             ELSE [st EXCEPT !.next = stop + 2,
                             !.tokens = Append(st.tokens,
                                 XmlToken("procinst", NoName, <<>>,
                                          SubSeq(s, i + 2, stop - 1), i, stop + 1,
                                          OpenPath(st.open)))]
    ELSE LET stop  == IndexOfNone(s, i + 1, NameChars)
             raw   == SubSeq(s, i + 1, stop - 1)
             tag   == xmlAttrs(s, stop, <<>>)
             outer == IF st.open = <<>> THEN <<>> ELSE st.open[Len(st.open)].ns
             ns    == outer \o Bindings(tag.attrs)
             name  == translate(nsname(raw), ns, TRUE)
             attrs == [k \in 1..Len(tag.attrs) |->
                          [name  |-> translate(tag.attrs[k].name, ns, FALSE),
                           value |-> tag.attrs[k].value]]
             path  == Append(OpenPath(st.open), nsname(raw).local)
             start == XmlToken("start", name, attrs, <<>>, i, tag.to, path)
         IN  IF stop = i + 1 \/ ~tag.ok THEN SyntaxError(st, i)
             ELSE IF tag.empty
             THEN [st EXCEPT !.next = tag.to + 1,
                             !.tokens = st.tokens \o
                                 <<start, XmlToken("end", name, <<>>, <<>>,
                                                   tag.to + 1, tag.to, path)>>]
             ELSE [st EXCEPT !.next = tag.to + 1,
                             !.open = Append(st.open, [raw |-> raw, ns |-> ns]),
                             !.tokens = Append(st.tokens, start)]

RECURSIVE xmlLoop(_, _, _, _)
xmlLoop(s, lo, hi, st) ==
    IF lo > hi THEN st
    ELSE IF lo = hi THEN xmlStep(s, lo, st)
    ELSE LET left == xmlLoop(s, lo, (lo + hi) \div 2, st)
         IN  IF left.err THEN left
             ELSE xmlLoop(s, ((lo + hi) \div 2) + 1, hi, left)

\* the tokens Decoder.Token hands out for a document until it fails or
\* reaches the end of the input; input that ends inside an element is a
\* syntax error
XmlTokens(s) ==
    LET st == xmlLoop(s, 1, Len(s), [tokens |-> <<>>, next |-> 1, open |-> <<>>, err |-> FALSE])
    IN  IF ~st.err /\ st.open # <<>> THEN SyntaxError(st, Len(s) + 1).tokens
        ELSE st.tokens

(***************************************************************************)
(* xml.Unmarshal over the tokens of a document: an element is found by the *)
(* local names on the way to it, a repeated element is decoded into the    *)
(* same field again, and decoding ends with the end of the first element.  *)
(***************************************************************************)
Least(S) == CHOOSE k \in S : \A m \in S : k <= m

Greatest(S) == CHOOSE k \in S : \A m \in S : m <= k

\* the start of the first element, 0 without one
RootStart(toks) ==
    LET starts == {k \in 1..Len(toks) : toks[k].kind = "start"}
    IN  IF starts = {} THEN 0 ELSE Least(starts)

\* the end of the first element, 0 when the decoder fails before it or the
\* input holds no element
RootEnd(toks) ==
    LET ends == {k \in 1..Len(toks) : toks[k].kind = "end" /\ Len(toks[k].path) = 1}
    IN  IF ends = {} THEN 0 ELSE Least(ends)

\* the end token of the element that starts at token k
MatchingEnd(toks, k) ==
    Least({j \in (k + 1)..Len(toks) : toks[j].kind = "end" /\ toks[j].path = toks[k].path})

\* the start tokens inside the element at k that the path of local names
\* leads to
ElementsIn(toks, k, path) ==
    {j \in (k + 1)..(MatchingEnd(toks, k) - 1) :
        toks[j].kind = "start" /\ toks[j].path = toks[k].path \o path}

\* the character data directly inside the element at k
RECURSIVE CharDataFrom(_, _, _)
CharDataFrom(toks, k, j) ==
    IF toks[j].kind = "end" /\ toks[j].path = toks[k].path THEN <<>>
    ELSE (IF toks[j].kind = "chars" /\ toks[j].path = toks[k].path
          THEN toks[j].text ELSE <<>>) \o CharDataFrom(toks, k, j + 1)

\* a string field: the character data of the last element the path leads to
StringField(toks, k, path) ==
    IF ElementsIn(toks, k, path) = {} THEN <<>>
    ELSE CharDataFrom(toks, Greatest(ElementsIn(toks, k, path)),
                      Greatest(ElementsIn(toks, k, path)) + 1)

HasAttr(tok, local) == \E a \in 1..Len(tok.attrs) : tok.attrs[a].name.local = local

\* an attribute field of the struct the path leads to: the last value given
AttrField(toks, k, path, local) ==
    LET given == {j \in ElementsIn(toks, k, path) : HasAttr(toks[j], local)}
        tok   == toks[Greatest(given)]
    IN  IF given = {} THEN <<>>
        ELSE tok.attrs[Greatest({a \in 1..Len(tok.attrs) :
                                    tok.attrs[a].name.local = local})].value

\* an innerxml field: the bytes between the tags of the element at k
InnerXML(s, toks, k) == SubSeq(s, toks[k].to + 1, toks[MatchingEnd(toks, k)].from - 1)

(***************************************************************************)
(* Track metadata.                                                         *)
(***************************************************************************)
NsDC == <<"h","t","t","p",":","/","/","p","u","r","l",".","o","r","g","/","d","c","/","e","l","e","m","e","n","t","s","/","1",".","1","/">>

NsUPnP == <<"u","r","n",":","s","c","h","e","m","a","s","-","u","p","n","p","-","o","r","g",":","m","e","t","a","d","a","t","a","-","1","-","0","/","u","p","n","p","/">>

NsRincon == <<"u","r","n",":","s","c","h","e","m","a","s","-","r","i","n","c","o","n","n","e","t","w","o","r","k","s","-","c","o","m",":","m","e","t","a","d","a","t","a","-","1","-","0","/">>

ItemFields == {"Title", "Creator", "Album", "AlbumArtURI", "StreamInfo", "ProgramTitle", "RadioShow"}

NoItem == [f \in ItemFields |-> <<>>]

\* the field of didlItem that character data inside the named element sets,
\* "" for none
itemFieldOf(field, item) ==
    IF field.space = NsDC
    THEN CASE field.local = <<"t","i","t","l","e">> -> "Title"
           [] field.local = <<"c","r","e","a","t","o","r">> -> "Creator"
           [] OTHER -> ""
    ELSE IF field.space = NsUPnP
    THEN CASE field.local = <<"a","l","b","u","m">> -> "Album"
           [] field.local = <<"a","l","b","u","m","A","r","t","U","R","I">> -> "AlbumArtURI"
           [] OTHER -> ""
    ELSE IF field.space = NsRincon
    THEN CASE field.local = <<"s","t","r","e","a","m","C","o","n","t","e","n","t">> -> "StreamInfo"
           [] field.local = <<"p","r","o","g","r","a","m","T","i","t","l","e">> -> "ProgramTitle"
           [] field.local = <<"r","a","d","i","o","S","h","o","w">> -> "RadioShow"
           [] OTHER -> ""
    ELSE CASE field.local = <<"t","i","t","l","e">> /\ item.Title = <<>> -> "Title"
           [] field.local = <<"c","r","e","a","t","o","r">> /\ item.Creator = <<>> -> "Creator"
           [] field.local = <<"a","l","b","u","m">> /\ item.Album = <<>> -> "Album"
           [] OTHER -> ""

\* one token of the loop of parseTrackMetadata; ret is "" while it runs
trackStep(toks, k, st) ==
    LET tok   == toks[k]
        value == TrimSpace(tok.text)
        field == st.stack[Len(st.stack)]
        set   == itemFieldOf(field, st.item)
    IN  IF st.ret # "" THEN st
        ELSE CASE tok.kind = "error" -> [st EXCEPT !.ret = "error"]
               [] tok.kind = "start" ->
                    IF ~st.capturing /\ tok.name.local = <<"i","t","e","m">>
                    THEN [st EXCEPT !.stack = Append(st.stack, tok.name),
                                    !.capturing = TRUE,
                                    !.itemDepth = Len(st.stack) + 1]
                    ELSE [st EXCEPT !.stack = Append(st.stack, tok.name)]
               [] tok.kind = "end" ->
                    IF st.capturing /\ tok.name.local = <<"i","t","e","m">> /\ Len(st.stack) = st.itemDepth
                    THEN [st EXCEPT !.ret = "ok"]
                    ELSE IF Len(st.stack) > 0
                    THEN [st EXCEPT !.stack = SubSeq(st.stack, 1, Len(st.stack) - 1)]
                    ELSE st
               [] tok.kind = "chars" ->
                    IF ~st.capturing \/ Len(st.stack) # st.itemDepth + 1 \/ value = <<>> THEN st
                    ELSE IF set = "" THEN st
                    ELSE [st EXCEPT !.item = [st.item EXCEPT ![set] = value]]
               [] OTHER -> st

RECURSIVE trackLoop(_, _, _, _)
trackLoop(toks, lo, hi, st) ==
    IF lo > hi THEN st
    ELSE IF lo = hi THEN trackStep(toks, lo, st)
    ELSE LET left == trackLoop(toks, lo, (lo + hi) \div 2, st)
         IN  IF left.ret # "" THEN left
             ELSE trackLoop(toks, ((lo + hi) \div 2) + 1, hi, left)

\* the loop of parseTrackMetadata when it returns
trackTokens(toks) ==
    trackLoop(toks, 1, Len(toks),
              [stack |-> <<>>, capturing |-> FALSE, itemDepth |-> 0,
               item |-> NoItem, ret |-> ""])

\* a decoder whose syntax errors end the loop without being returned
parseTrackMetadataLenient(xmlString) ==
    [item |-> trackTokens(XmlTokens(xmlString)).item, err |-> FALSE]

parseTrackMetadata(xmlString) ==
    [item |-> trackTokens(XmlTokens(xmlString)).item,
     err  |-> trackTokens(XmlTokens(xmlString)).ret = "error"]

TrackFields == {"Title", "Artist", "Album", "StreamInfo", "URI", "State", "AlbumArtURI"}

ZeroTrackInfo == [f \in TrackFields |-> <<>>]

\* a buildTrackInfo that takes the title of the item and nothing else
buildTrackInfoTitleOnly(resp) ==
    LET uri     == TrimSpace(resp.TrackURI)
        meta    == TrimSpace(resp.TrackMetaData)
        decoded == sanitizeInvalidEntities(UnescapeString(meta))
        parsed  == parseTrackMetadata(decoded)
        item    == parsed.item
        stream  == TrimSpace(item.StreamInfo)
        title   == TrimSpace(item.Title)
    IN  IF meta = <<>> THEN [info |-> [ZeroTrackInfo EXCEPT !.URI = uri], err |-> ""]
        ELSE IF parsed.err
        THEN [info |-> [ZeroTrackInfo EXCEPT !.URI = uri], err |-> "parse_track_metadata"]
        ELSE [info |-> [ZeroTrackInfo EXCEPT !.URI = uri,
                                       !.Title = title,
                                       !.Artist = TrimSpace(item.Creator),
                                       !.Album = TrimSpace(item.Album),
                                       !.StreamInfo = stream,
                                       !.AlbumArtURI = TrimSpace(item.AlbumArtURI)],
              err |-> ""]

buildTrackInfo(resp) ==
    LET uri     == TrimSpace(resp.TrackURI)
        meta    == TrimSpace(resp.TrackMetaData)
        decoded == sanitizeInvalidEntities(UnescapeString(meta))
        parsed  == parseTrackMetadata(decoded)
        item    == parsed.item
        stream  == TrimSpace(item.StreamInfo)
        title   == IF TrimSpace(item.Title) # <<>> THEN TrimSpace(item.Title)
                   ELSE IF TrimSpace(item.ProgramTitle) # <<>> THEN TrimSpace(item.ProgramTitle)
                   ELSE IF TrimSpace(item.RadioShow) # <<>> THEN TrimSpace(item.RadioShow)
                   ELSE stream
    IN  IF meta = <<>> THEN [info |-> [ZeroTrackInfo EXCEPT !.URI = uri], err |-> ""]
        ELSE IF parsed.err
        THEN [info |-> [ZeroTrackInfo EXCEPT !.URI = uri], err |-> "parse_track_metadata"]
        ELSE [info |-> [ZeroTrackInfo EXCEPT !.URI = uri,
                                       !.Title = title,
                                       !.Artist = TrimSpace(item.Creator),
                                       !.Album = TrimSpace(item.Album),
                                       !.StreamInfo = stream,
                                       !.AlbumArtURI = TrimSpace(item.AlbumArtURI)],
              err |-> ""]

(***************************************************************************)
(* AVTransport events.                                                     *)
(***************************************************************************)
StrNotImplemented == <<"n","o","t","_","i","m","p","l","e","m","e","n","t","e","d">>

NoEvent == [TransportState |-> <<>>, Track |-> ZeroTrackInfo]

\* an error that is dropped on the way out
EventFailureDropped(err) == [event |-> NoEvent, err |-> ""]

EventFailure(err) == [event |-> NoEvent, err |-> err]

ParseAVTransportEvent(body) ==
    LET toks       == XmlTokens(body)
        props      == ElementsIn(toks, RootStart(toks), <<<<"p","r","o","p","e","r","t","y">>>>)
        raw(p)     == IF ElementsIn(toks, p, <<<<"L","a","s","t","C","h","a","n","g","e">>>>) = {} THEN <<>>
                      ELSE InnerXML(body, toks, Greatest(ElementsIn(toks, p, <<<<"L","a","s","t","C","h","a","n","g","e">>>>)))
        filled     == {p \in props : TrimSpace(raw(p)) # <<>>}
        lastChange == raw(Least(filled))
        prepared   == prepareLastChangeXML(lastChange)
        inner      == XmlTokens(prepared)
        instances  == ElementsIn(inner, RootStart(inner), <<<<"I","n","s","t","a","n","c","e","I","D">>>>)
        instance   == Least(instances)
        state      == TrimSpace(AttrField(inner, instance, <<<<"T","r","a","n","s","p","o","r","t","S","t","a","t","e">>>>, <<"v","a","l">>))
        given      == TrimSpace(AttrField(inner, instance, <<<<"C","u","r","r","e","n","t","T","r","a","c","k","M","e","t","a","D","a","t","a">>>>, <<"v","a","l">>))
        uri        == TrimSpace(AttrField(inner, instance, <<<<"C","u","r","r","e","n","t","T","r","a","c","k","U","R","I">>>>, <<"v","a","l">>))
        meta       == IF EqualFold(given, StrNotImplemented) THEN <<>> ELSE given
        built      == buildTrackInfo([TrackMetaData |-> meta, TrackURI |-> uri])
    IN  IF RootEnd(toks) = 0 THEN EventFailure("decode_avtransport_event")
        ELSE IF filled = {} THEN EventFailure("event_missing_lastchange")
        ELSE IF RootEnd(inner) = 0 THEN EventFailure("decode_last_change")
        ELSE IF instances = {} THEN EventFailure("last_change_missing_instance")
        ELSE IF meta = <<>> /\ uri = <<>>
        THEN [event |-> [TransportState |-> state, Track |-> ZeroTrackInfo], err |-> ""]
        ELSE IF built.err = ""
        THEN [event |-> [TransportState |-> state, Track |-> built.info], err |-> ""]
        ELSE [event |-> [TransportState |-> state, Track |-> [ZeroTrackInfo EXCEPT !.URI = uri]],
              err |-> ""]

(***************************************************************************)
(* NOTIFY bodies as a device writes them: every level of nesting escapes   *)
(* the text it carries.                                                    *)
(***************************************************************************)
EscapedChar(c) ==
    CASE c = "&" -> <<"&","a","m","p",";">> [] c = "<" -> <<"&","l","t",";">> [] c = ">" -> <<"&","g","t",";">>
      [] c = "\"" -> <<"&","q","u","o","t",";">> [] c = "'" -> <<"&","a","p","o","s",";">> [] OTHER -> <<c>>

RECURSIVE EscapeRange(_, _, _)
EscapeRange(s, lo, hi) ==
    IF lo > hi THEN <<>>
    ELSE IF lo = hi THEN EscapedChar(s[lo])
    ELSE EscapeRange(s, lo, (lo + hi) \div 2) \o EscapeRange(s, ((lo + hi) \div 2) + 1, hi)

\* the text as it is written into character data or an attribute value
EscapeString(s) == EscapeRange(s, 1, Len(s))

DidlItem(title, creator, album, art) ==
    [title |-> title, creator |-> creator, album |-> album, albumArtURI |-> art]

ItemTigers == DidlItem(<<"T","i","g","e","r","s">>, <<"T","h","e"," ","S","u","b","m","a","r","i","n","e","s">>, <<"L","o","v","e"," ","N","o","t","e","s">>, <<"h","t","t","p",":","/","/","h","/","g","e","t","a","a","?","v","=","0","&","u","=","2">>)

ItemSongAndDance == DidlItem(<<"S","o","n","g"," ","&"," ","D","a","n","c","e">>, <<"A","r","t","i","s","t">>, <<"B","-","S","i","d","e","s"," ","<","1",">">>, <<"/","a",".","p","n","g">>)

DidlDocument(item) ==
    <<"<","D","I","D","L","-","L","i","t","e"," ","x","m","l","n","s",":","d","c","=","\"","h","t","t","p",":","/","/","p","u","r","l",".","o","r","g","/","d","c","/","e","l","e","m","e","n","t","s","/","1",".","1","/","\""," ","x","m","l","n","s",":","u","p","n","p","=","\"","u","r","n",":","s","c","h","e","m","a","s","-","u","p","n","p","-","o","r","g",":","m","e","t","a","d","a","t","a","-","1","-","0","/","u","p","n","p","/","\""," ","x","m","l","n","s","=","\"","u","r","n",":","s","c","h","e","m","a","s","-","u","p","n","p","-","o","r","g",":","m","e","t","a","d","a","t","a","-","1","-","0","/","D","I","D","L","-","L","i","t","e","/","\"",">","<","i","t","e","m"," ","i","d","=","\"","-","1","\"",">","<","u","p","n","p",":","a","l","b","u","m","A","r","t","U","R","I",">">>
    \o EscapeString(item.albumArtURI)
    \o <<"<","/","u","p","n","p",":","a","l","b","u","m","A","r","t","U","R","I",">","<","d","c",":","t","i","t","l","e",">">> \o EscapeString(item.title)
    \o <<"<","/","d","c",":","t","i","t","l","e",">","<","d","c",":","c","r","e","a","t","o","r",">">> \o EscapeString(item.creator)
    \o <<"<","/","d","c",":","c","r","e","a","t","o","r",">","<","u","p","n","p",":","a","l","b","u","m",">">> \o EscapeString(item.album)
    \o <<"<","/","u","p","n","p",":","a","l","b","u","m",">","<","/","i","t","e","m",">","<","/","D","I","D","L","-","L","i","t","e",">">>

\* metadata that is not a DIDL-Lite document: an element closed by the
\* wrong tag, input that ends inside a tag, an unknown entity
BrokenMetadata ==
    {<<"<","D","I","D","L","-","L","i","t","e"," ","x","m","l","n","s",":","d","c","=","\"","h","t","t","p",":","/","/","p","u","r","l",".","o","r","g","/","d","c","/","e","l","e","m","e","n","t","s","/","1",".","1","/","\"",">","<","i","t","e","m",">","<","d","c",":","t","i","t","l","e",">","T","i","g","e","r","s","<","/","i","t","e","m",">","<","/","D","I","D","L","-","L","i","t","e",">">>,
     <<"<","D","I","D","L","-","L","i","t","e"," ","x","m","l","n","s",":","d","c","=","\"","h","t","t","p",":","/","/","p","u","r","l",".","o","r","g","/","d","c","/","e","l","e","m","e","n","t","s","/","1",".","1","/","\"",">","<","i","t","e","m",">","<","d","c",":","t","i","t","l","e",">","T","i","g","e","r","s","<","/","d","c",":","t","i","t","l","e",">","<","r","e","s">>,
     <<"<","D","I","D","L","-","L","i","t","e",">","<","i","t","e","m",">","<","t","i","t","l","e",">","T","i","g","&","e","r","s",";","<","/","t","i","t","l","e",">","<","/","i","t","e","m",">","<","/","D","I","D","L","-","L","i","t","e",">">>}

StrNOT_IMPLEMENTED == <<"N","O","T","_","I","M","P","L","E","M","E","N","T","E","D">>

StrNotImplementedMixed == <<"N","o","t","_","I","m","p","l","e","m","e","n","t","e","d">>

\* what the device reports as metadata: nothing, the marker, an item, or text
\* that is no document
Metadata(kind, text, item) == [kind |-> kind, text |-> text, item |-> item]

MetadataValues ==
    {Metadata("none", <<>>, DidlItem(<<>>, <<>>, <<>>, <<>>)),
     Metadata("marker", StrNOT_IMPLEMENTED, DidlItem(<<>>, <<>>, <<>>, <<>>)),
     Metadata("marker", StrNotImplementedMixed, DidlItem(<<>>, <<>>, <<>>, <<>>)),
     Metadata("item", DidlDocument(ItemTigers), ItemTigers),
     Metadata("item", DidlDocument(ItemSongAndDance), ItemSongAndDance)}
    \cup {Metadata("broken", text, DidlItem(<<>>, <<>>, <<>>, <<>>)) : text \in BrokenMetadata}

TrackURIs == {<<>>, <<"x","-","s","o","n","o","s","-","v","l","i",":","R","I","N","C","O","N","_","1",":","1",",","a","i","r","p","l","a","y",":","3","e","4","a">>, <<"x","-","s","o","n","o","s","a","p","i","-","s","t","r","e","a","m",":","s","1","?","s","i","d","=","2","5","4","&","f","l","a","g","s","=","8","2","2","4">>}

TransportStates == {StrPLAYING, StrPAUSED_PLAYBACK}

\* the LastChange document of an event
LastChangeDocument(in) ==
    IF in.shape = "no_instance"
    THEN <<"<","E","v","e","n","t"," ","x","m","l","n","s","=","\"","u","r","n",":","s","c","h","e","m","a","s","-","u","p","n","p","-","o","r","g",":","m","e","t","a","d","a","t","a","-","1","-","0","/","A","V","T","/","\"",">","<","/","E","v","e","n","t",">">>
    ELSE <<"<","E","v","e","n","t"," ","x","m","l","n","s","=","\"","u","r","n",":","s","c","h","e","m","a","s","-","u","p","n","p","-","o","r","g",":","m","e","t","a","d","a","t","a","-","1","-","0","/","A","V","T","/","\"",">","<","I","n","s","t","a","n","c","e","I","D"," ","v","a","l","=","\"","0","\"",">","<","T","r","a","n","s","p","o","r","t","S","t","a","t","e"," ","v","a","l","=","\"">>
         \o EscapeString(in.state) \o <<"\"","/",">">>
         \o (IF in.uri = <<>> THEN <<>>
             ELSE <<"<","C","u","r","r","e","n","t","T","r","a","c","k","U","R","I"," ","v","a","l","=","\"">> \o EscapeString(in.uri) \o <<"\"","/",">">>)
         \o (IF in.meta.kind = "none" THEN <<>>
             ELSE <<"<","C","u","r","r","e","n","t","T","r","a","c","k","M","e","t","a","D","a","t","a"," ","v","a","l","=","\"">> \o EscapeString(in.meta.text) \o <<"\"","/",">">>)
         \o <<"<","/","I","n","s","t","a","n","c","e","I","D",">","<","/","E","v","e","n","t",">">>

\* the LastChange value as it is sent
LastChangeValue(in) == EscapeString(LastChangeDocument(in))

\* the body of the NOTIFY request
EventBody(in) ==
    <<"<","?","x","m","l"," ","v","e","r","s","i","o","n","=","\"","1",".","0","\""," ","e","n","c","o","d","i","n","g","=","\"","u","t","f","-","8","\"","?",">","<","e",":","p","r","o","p","e","r","t","y","s","e","t"," ","x","m","l","n","s",":","e","=","\"","u","r","n",":","s","c","h","e","m","a","s","-","u","p","n","p","-","o","r","g",":","e","v","e","n","t","-","1","-","0","\"",">","<","e",":","p","r","o","p","e","r","t","y",">">>
    \o (CASE in.shape = "no_lastchange" -> <<"<","O","t","h","e","r",">","1","<","/","O","t","h","e","r",">">>
          [] in.shape = "blank_lastchange" -> <<"<","L","a","s","t","C","h","a","n","g","e",">"," "," ","<","/","L","a","s","t","C","h","a","n","g","e",">">>
          [] in.shape = "second_property" ->
                <<"<","L","a","s","t","C","h","a","n","g","e",">"," ","<","/","L","a","s","t","C","h","a","n","g","e",">","<","/","e",":","p","r","o","p","e","r","t","y",">","<","e",":","p","r","o","p","e","r","t","y",">","<","L","a","s","t","C","h","a","n","g","e",">">>
                \o LastChangeValue(in) \o <<"<","/","L","a","s","t","C","h","a","n","g","e",">">>
          [] OTHER -> <<"<","L","a","s","t","C","h","a","n","g","e",">">> \o LastChangeValue(in) \o <<"<","/","L","a","s","t","C","h","a","n","g","e",">">>)
    \o <<"<","/","e",":","p","r","o","p","e","r","t","y",">","<","/","e",":","p","r","o","p","e","r","t","y","s","e","t",">">>

EventInput(shape, state, uri, meta) == [shape |-> shape, state |-> state, uri |-> uri, meta |-> meta]

EventInputs ==
    {EventInput("event", state, uri, meta) :
        state \in TransportStates, uri \in TrackURIs, meta \in MetadataValues}
    \cup {EventInput(shape, StrPLAYING, <<"x","-","r","i","n","c","o","n",":","1">>, Metadata("item", DidlDocument(ItemTigers), ItemTigers)) :
            shape \in {"no_lastchange", "blank_lastchange", "no_instance", "second_property"}}

CallParseAVTransportEvent(in, out) ==
    /\ libCall = NoCall
    /\ libCall' = [op |-> "ParseAVTransportEvent", in |-> in, out |-> out]
    /\ UNCHANGED <<listenerVars, genaCall, discoverVars, enrichVars>>

ParseEvent ==
    \E in \in EventInputs :
        CallParseAVTransportEvent(in, ParseAVTransportEvent(EventBody(in)))

NextEvent == ParseEvent

SpecEvent == Init /\ [][NextEvent]_vars

CallPrepareLastChangeXML(in, out) ==
    /\ libCall = NoCall
    /\ libCall' = [op |-> "prepareLastChangeXML", in |-> in, out |-> out]
    /\ UNCHANGED <<listenerVars, genaCall, discoverVars, enrichVars>>

PrepareLastChange ==
    \E in \in EventInputs :
        CallPrepareLastChangeXML(in, prepareLastChangeXML(LastChangeValue(in)))

NextPrepare == PrepareLastChange

SpecPrepare == Init /\ [][NextPrepare]_vars

(***************************************************************************)
(* SOAP control: NowPlaying.                                               *)
(***************************************************************************)
NowPlayingSnippetLimit == 256

NoError == [kind |-> "", text |-> <<>>]

Error(kind, text) == [kind |-> kind, text |-> text]

\* url.Parse rejects a location with a percent sign that no two hexadecimal
\* digits follow (the other ways it fails are not among the inputs)
urlParseFails(location) ==
    \E i \in 1..Len(location) :
        /\ location[i] = "%"
        /\ ~(i + 2 <= Len(location) /\ isHexDigit(location[i + 1]) /\ isHexDigit(location[i + 2]))

\* the control or event endpoint of a device: its error, "" for none
avTransportURL(device, suffix) ==
    IF TrimSpace(device.Location) = <<>>
    THEN Error("location_empty", <<"s","o","n","o","s",":"," ","d","e","v","i","c","e"," ","l","o","c","a","t","i","o","n"," ","i","s"," ","e","m","p","t","y">>)
    ELSE IF urlParseFails(device.Location)
    THEN Error("parse_location", <<"s","o","n","o","s",":"," ","p","a","r","s","e"," ","d","e","v","i","c","e"," ","l","o","c","a","t","i","o","n",":"," ">>)
    ELSE NoError

avTransportControlURL(device) == avTransportURL(device, "Control")

avTransportEventURL(device) == avTransportURL(device, "Event")

\* resp.Status
StatusLine(status) ==
    CASE status = 200 -> <<"2","0","0"," ","O","K">>
      [] status = 500 -> <<"5","0","0"," ","I","n","t","e","r","n","a","l"," ","S","e","r","v","e","r"," ","E","r","r","o","r">>
      [] OTHER -> <<"4","0","4"," ","N","o","t"," ","F","o","u","n","d">>

\* the trimmed body, cut to the first 256 bytes
soapSnippet(body) ==
    IF Len(TrimSpace(body)) > NowPlayingSnippetLimit
    THEN SubSeq(TrimSpace(body), 1, NowPlayingSnippetLimit)
    ELSE TrimSpace(body)

\* the description a decoded soapFault is reported with
faultDescription(fault) ==
    IF fault.ErrorDescription # <<>> THEN fault.ErrorDescription
    ELSE IF fault.FaultString = <<>> /\ fault.ErrorCode # <<>>
    THEN <<"U","P","n","P","E","r","r","o","r"," ">> \o fault.ErrorCode
    ELSE fault.FaultString

\* the soapFault that xml.Unmarshal fills from the envelope
soapFault(toks) ==
    [FaultCode        |-> StringField(toks, RootStart(toks), <<<<"B","o","d","y">>, <<"F","a","u","l","t">>, <<"f","a","u","l","t","c","o","d","e">>>>),
     FaultString      |-> StringField(toks, RootStart(toks), <<<<"B","o","d","y">>, <<"F","a","u","l","t">>, <<"f","a","u","l","t","s","t","r","i","n","g">>>>),
     ErrorCode        |-> StringField(toks, RootStart(toks),
                              <<<<"B","o","d","y">>, <<"F","a","u","l","t">>, <<"d","e","t","a","i","l">>, <<"U","P","n","P","E","r","r","o","r">>, <<"e","r","r","o","r","C","o","d","e">>>>),
     ErrorDescription |-> StringField(toks, RootStart(toks),
                              <<<<"B","o","d","y">>, <<"F","a","u","l","t">>, <<"d","e","t","a","i","l">>, <<"U","P","n","P","E","r","r","o","r">>, <<"e","r","r","o","r","D","e","s","c","r","i","p","t","i","o","n">>>>)]

faultError(toks) ==
    Error("fault", <<"s","o","n","o","s",":"," ","a","v","t","r","a","n","s","p","o","r","t"," ","f","a","u","l","t"," ">> \o soapFault(toks).FaultCode \o <<":"," ">>
                       \o faultDescription(soapFault(toks)))

parsePositionInfoResponse(body) ==
    LET toks == XmlTokens(body)
        root == RootStart(toks)
    IN  IF RootEnd(toks) = 0
        THEN [resp |-> [TrackMetaData |-> <<>>, TrackURI |-> <<>>],
              err  |-> Error("decode", <<"s","o","n","o","s",":"," ","d","e","c","o","d","e"," ","p","o","s","i","t","i","o","n"," ","i","n","f","o",":"," ">>)]
        ELSE IF ElementsIn(toks, root, <<<<"B","o","d","y">>, <<"F","a","u","l","t">>>>) # {}
        THEN [resp |-> [TrackMetaData |-> <<>>, TrackURI |-> <<>>], err |-> faultError(toks)]
        ELSE IF ElementsIn(toks, root, <<<<"B","o","d","y">>, <<"G","e","t","P","o","s","i","t","i","o","n","I","n","f","o","R","e","s","p","o","n","s","e">>>>) = {}
        THEN [resp |-> [TrackMetaData |-> <<>>, TrackURI |-> <<>>],
              err  |-> Error("empty_response", <<"s","o","n","o","s",":"," ","e","m","p","t","y"," ","p","o","s","i","t","i","o","n"," ","i","n","f","o"," ","r","e","s","p","o","n","s","e">>)]
        ELSE [resp |-> [TrackMetaData |-> StringField(toks, root,
                            <<<<"B","o","d","y">>, <<"G","e","t","P","o","s","i","t","i","o","n","I","n","f","o","R","e","s","p","o","n","s","e">>, <<"T","r","a","c","k","M","e","t","a","D","a","t","a">>>>),
                        TrackURI |-> StringField(toks, root,
                            <<<<"B","o","d","y">>, <<"G","e","t","P","o","s","i","t","i","o","n","I","n","f","o","R","e","s","p","o","n","s","e">>, <<"T","r","a","c","k","U","R","I">>>>)],
              err  |-> NoError]

parseTransportInfoResponse(body) ==
    LET toks == XmlTokens(body)
        root == RootStart(toks)
    IN  IF RootEnd(toks) = 0
        THEN [CurrentTransportState |-> <<>>,
              err |-> Error("decode", <<"s","o","n","o","s",":"," ","d","e","c","o","d","e"," ","t","r","a","n","s","p","o","r","t"," ","i","n","f","o",":"," ">>)]
        ELSE IF ElementsIn(toks, root, <<<<"B","o","d","y">>, <<"F","a","u","l","t">>>>) # {}
        THEN [CurrentTransportState |-> <<>>, err |-> faultError(toks)]
        ELSE IF ElementsIn(toks, root, <<<<"B","o","d","y">>, <<"G","e","t","T","r","a","n","s","p","o","r","t","I","n","f","o","R","e","s","p","o","n","s","e">>>>) = {}
        THEN [CurrentTransportState |-> <<>>,
              err |-> Error("empty_response", <<"s","o","n","o","s",":"," ","e","m","p","t","y"," ","t","r","a","n","s","p","o","r","t"," ","i","n","f","o"," ","r","e","s","p","o","n","s","e">>)]
        ELSE [CurrentTransportState |-> StringField(toks, root,
                  <<<<"B","o","d","y">>, <<"G","e","t","T","r","a","n","s","p","o","r","t","I","n","f","o","R","e","s","p","o","n","s","e">>, <<"C","u","r","r","e","n","t","T","r","a","n","s","p","o","r","t","S","t","a","t","e">>>>),
              err |-> NoError]

\* the state as the device wrote it, spaces included
fetchTransportStateUntrimmed(reply) ==
    [state |-> parseTransportInfoResponse(reply.body).CurrentTransportState, err |-> NoError]

\* what the device answers to one request: whether the exchange or the
\* reading of the body fails, the status and the body
fetchTransportState(reply) ==
    IF reply.outcome = "transport"
    THEN [state |-> <<>>, err |-> Error("fetch", <<"s","o","n","o","s",":"," ","f","e","t","c","h"," ","t","r","a","n","s","p","o","r","t"," ","i","n","f","o",":"," ">>)]
    ELSE IF reply.outcome = "read"
    THEN [state |-> <<>>, err |-> Error("read_body", <<"s","o","n","o","s",":"," ","r","e","a","d"," ","t","r","a","n","s","p","o","r","t"," ","i","n","f","o"," ","b","o","d","y",":"," ">>)]
    ELSE IF reply.status # 200
    THEN [state |-> <<>>,
          err |-> Error("http_status", <<"s","o","n","o","s",":"," ","t","r","a","n","s","p","o","r","t"," ","i","n","f","o"," ","h","t","t","p"," ","s","t","a","t","u","s"," ">>
                            \o StatusLine(reply.status) \o <<":"," ">> \o soapSnippet(reply.body))]
    ELSE IF parseTransportInfoResponse(reply.body).err # NoError
    THEN [state |-> <<>>, err |-> parseTransportInfoResponse(reply.body).err]
    ELSE [state |-> TrimSpace(parseTransportInfoResponse(reply.body).CurrentTransportState),
          err |-> NoError]

NowPlayingFailure(err) == [info |-> ZeroTrackInfo, err |-> err]

\* NowPlaying with the answers the device gives to its two requests
NowPlaying(ctx, device, position, transport) ==
    LET parsed == parsePositionInfoResponse(position.body)
        built  == buildTrackInfo(parsed.resp)
        state  == fetchTransportState(transport)
    IN  IF ctx = "nil" THEN NowPlayingFailure(Error("nil_context", <<"s","o","n","o","s",":"," ","n","i","l"," ","c","o","n","t","e","x","t">>))
        ELSE IF avTransportControlURL(device) # NoError
        THEN NowPlayingFailure(avTransportControlURL(device))
        ELSE IF position.outcome = "transport"
        THEN NowPlayingFailure(Error("fetch", <<"s","o","n","o","s",":"," ","f","e","t","c","h"," ","n","o","w"," ","p","l","a","y","i","n","g",":"," ">>))
        ELSE IF position.outcome = "read"
        THEN NowPlayingFailure(Error("read_body", <<"s","o","n","o","s",":"," ","r","e","a","d"," ","n","o","w"," ","p","l","a","y","i","n","g"," ","b","o","d","y",":"," ">>))
        ELSE IF position.status # 200
        THEN NowPlayingFailure(Error("http_status", <<"s","o","n","o","s",":"," ","n","o","w"," ","p","l","a","y","i","n","g"," ","h","t","t","p"," ","s","t","a","t","u","s"," ">>
                 \o StatusLine(position.status) \o <<":"," ">> \o soapSnippet(position.body)))
        ELSE IF parsed.err # NoError THEN NowPlayingFailure(parsed.err)
        ELSE IF built.err # ""
        THEN NowPlayingFailure(Error(built.err, <<"s","o","n","o","s",":"," ","p","a","r","s","e"," ","t","r","a","c","k"," ","m","e","t","a","d","a","t","a",":"," ">>))
        ELSE IF state.err # NoError THEN [info |-> built.info, err |-> NoError]
        ELSE [info |-> [built.info EXCEPT !.State = state.state], err |-> NoError]

(***************************************************************************)
(* The answers of a device to GetPositionInfo and GetTransportInfo.        *)
(***************************************************************************)
Reply(outcome, status, kind, body) ==
    [outcome |-> outcome, status |-> status, kind |-> kind, body |-> body]

\* a fault as a device writes it, every element on a line of its own
FaultBody(faultstring, errorCode, errorDescription) ==
    <<"<","?","x","m","l"," ","v","e","r","s","i","o","n","=","\"","1",".","0","\"","?",">","\n","<","s",":","E","n","v","e","l","o","p","e"," ","x","m","l","n","s",":","s","=","\"","h","t","t","p",":","/","/","s","c","h","e","m","a","s",".","x","m","l","s","o","a","p",".","o","r","g","/","s","o","a","p","/","e","n","v","e","l","o","p","e","/","\"",">","\n"," "," ","<","s",":","B","o","d","y",">","\n"," "," "," "," ","<","s",":","F","a","u","l","t",">","\n"," "," "," "," "," "," ","<","f","a","u","l","t","c","o","d","e",">","s",":","C","l","i","e","n","t","<","/","f","a","u","l","t","c","o","d","e",">","\n"," "," "," "," "," "," ","<","f","a","u","l","t","s","t","r","i","n","g",">">> \o EscapeString(faultstring) \o <<"<","/","f","a","u","l","t","s","t","r","i","n","g",">","\n"," "," "," "," "," "," ","<","d","e","t","a","i","l",">","\n"," "," "," "," "," "," "," "," ","<","U","P","n","P","E","r","r","o","r"," ","x","m","l","n","s","=","\"","u","r","n",":","s","c","h","e","m","a","s","-","u","p","n","p","-","o","r","g",":","c","o","n","t","r","o","l","-","1","-","0","\"",">","\n"," "," "," "," "," "," "," "," "," "," ","<","e","r","r","o","r","C","o","d","e",">">> \o EscapeString(errorCode) \o <<"<","/","e","r","r","o","r","C","o","d","e",">","\n"," "," "," "," "," "," "," "," "," "," ","<","e","r","r","o","r","D","e","s","c","r","i","p","t","i","o","n",">">> \o EscapeString(errorDescription) \o <<"<","/","e","r","r","o","r","D","e","s","c","r","i","p","t","i","o","n",">","\n"," "," "," "," "," "," "," "," ","<","/","U","P","n","P","E","r","r","o","r",">","\n"," "," "," "," "," "," ","<","/","d","e","t","a","i","l",">","\n"," "," "," "," ","<","/","s",":","F","a","u","l","t",">","\n"," "," ","<","/","s",":","B","o","d","y",">","\n","<","/","s",":","E","n","v","e","l","o","p","e",">">>

StrInvalidAction == <<"I","n","v","a","l","i","d"," ","A","c","t","i","o","n">>

StrUPnPError == <<"U","P","n","P","E","r","r","o","r">>

FaultBodies ==
    {FaultBody(StrUPnPError, <<"4","0","1">>, StrInvalidAction),
     FaultBody(StrUPnPError, <<"4","0","1">>, <<>>),
     FaultBody(<<>>, <<"4","0","1">>, <<>>),
     FaultBody(<<>>, <<>>, <<>>)}

PositionBody(uri, meta) ==
    <<"<","s",":","E","n","v","e","l","o","p","e"," ","x","m","l","n","s",":","s","=","\"","h","t","t","p",":","/","/","s","c","h","e","m","a","s",".","x","m","l","s","o","a","p",".","o","r","g","/","s","o","a","p","/","e","n","v","e","l","o","p","e","/","\"",">","<","s",":","B","o","d","y",">","<","u",":","G","e","t","P","o","s","i","t","i","o","n","I","n","f","o","R","e","s","p","o","n","s","e"," ","x","m","l","n","s",":","u","=","\"","u","r","n",":","s","c","h","e","m","a","s","-","u","p","n","p","-","o","r","g",":","s","e","r","v","i","c","e",":","A","V","T","r","a","n","s","p","o","r","t",":","1","\"",">","<","T","r","a","c","k",">","1","<","/","T","r","a","c","k",">","<","T","r","a","c","k","M","e","t","a","D","a","t","a",">">>
    \o EscapeString(meta) \o <<"<","/","T","r","a","c","k","M","e","t","a","D","a","t","a",">","<","T","r","a","c","k","U","R","I",">">> \o EscapeString(uri)
    \o <<"<","/","T","r","a","c","k","U","R","I",">","<","/","u",":","G","e","t","P","o","s","i","t","i","o","n","I","n","f","o","R","e","s","p","o","n","s","e",">","<","/","s",":","B","o","d","y",">","<","/","s",":","E","n","v","e","l","o","p","e",">">>

TransportBody(state) ==
    <<"<","s",":","E","n","v","e","l","o","p","e"," ","x","m","l","n","s",":","s","=","\"","h","t","t","p",":","/","/","s","c","h","e","m","a","s",".","x","m","l","s","o","a","p",".","o","r","g","/","s","o","a","p","/","e","n","v","e","l","o","p","e","/","\"",">","<","s",":","B","o","d","y",">","<","u",":","G","e","t","T","r","a","n","s","p","o","r","t","I","n","f","o","R","e","s","p","o","n","s","e"," ","x","m","l","n","s",":","u","=","\"","u","r","n",":","s","c","h","e","m","a","s","-","u","p","n","p","-","o","r","g",":","s","e","r","v","i","c","e",":","A","V","T","r","a","n","s","p","o","r","t",":","1","\"",">","<","C","u","r","r","e","n","t","T","r","a","n","s","p","o","r","t","S","t","a","t","e",">">>
    \o EscapeString(state)
    \o <<"<","/","C","u","r","r","e","n","t","T","r","a","n","s","p","o","r","t","S","t","a","t","e",">","<","C","u","r","r","e","n","t","T","r","a","n","s","p","o","r","t","S","t","a","t","u","s",">","O","K","<","/","C","u","r","r","e","n","t","T","r","a","n","s","p","o","r","t","S","t","a","t","u","s",">","<","C","u","r","r","e","n","t","S","p","e","e","d",">","1","<","/","C","u","r","r","e","n","t","S","p","e","e","d",">","<","/","u",":","G","e","t","T","r","a","n","s","p","o","r","t","I","n","f","o","R","e","s","p","o","n","s","e",">","<","/","s",":","B","o","d","y",">","<","/","s",":","E","n","v","e","l","o","p","e",">">>

EmptyEnvelope ==
    <<"<","s",":","E","n","v","e","l","o","p","e"," ","x","m","l","n","s",":","s","=","\"","h","t","t","p",":","/","/","s","c","h","e","m","a","s",".","x","m","l","s","o","a","p",".","o","r","g","/","s","o","a","p","/","e","n","v","e","l","o","p","e","/","\"",">","<","s",":","B","o","d","y",">","<","/","s",":","B","o","d","y",">","<","/","s",":","E","n","v","e","l","o","p","e",">">>

UndecodableBody == <<"<","s",":","E","n","v","e","l","o","p","e"," ","x","m","l","n","s",":","s","=","\"","h","t","t","p",":","/","/","s","c","h","e","m","a","s",".","x","m","l","s","o","a","p",".","o","r","g","/","s","o","a","p","/","e","n","v","e","l","o","p","e","/","\"",">","<","s",":","B","o","d","y",">">>

PositionReplies ==
    {Reply("ok", 200, "position", PositionBody(uri, meta)) :
        uri \in {<<"x","-","r","i","n","c","o","n",":","1">>, <<"s","1","?","s","i","d","=","2","5","4","&","f","l","a","g","s","=","8","2","2","4">>},
        meta \in {<<>>, DidlDocument(ItemTigers), DidlDocument(ItemSongAndDance)}}
    \cup {Reply("ok", 200, "broken_metadata", PositionBody(<<"x","-","r","i","n","c","o","n",":","1">>, meta)) :
            meta \in BrokenMetadata}
    \cup {Reply("ok", status, "fault", body) : status \in {200, 500}, body \in FaultBodies}
    \cup {Reply("ok", 200, "empty", EmptyEnvelope),
          Reply("ok", 200, "undecodable", UndecodableBody),
          Reply("ok", 500, "position", PositionBody(<<"x","-","r","i","n","c","o","n",":","1">>, <<>>)),
          Reply("transport", 0, "none", <<>>),
          Reply("read", 200, "none", <<>>)}

\* the states a device reports, as it writes them
ReportedStates == {StrPLAYING, <<" "," ","P","A","U","S","E","D","_","P","L","A","Y","B","A","C","K"," ">>, <<>>}

TransportReplies ==
    {Reply("ok", 200, "state", TransportBody(state)) : state \in ReportedStates}
    \cup {Reply("ok", 200, "fault", FaultBody(StrUPnPError, <<"4","0","1">>, StrInvalidAction)),
          Reply("ok", 500, "fault", FaultBody(StrUPnPError, <<"4","0","1">>, StrInvalidAction)),
          Reply("ok", 500, "state", TransportBody(StrPLAYING)),
          Reply("ok", 200, "empty", EmptyEnvelope),
          Reply("ok", 200, "undecodable", UndecodableBody),
          Reply("transport", 0, "none", <<>>),
          Reply("read", 200, "none", <<>>)}

DeviceWithLocation(location) == [Location |-> location]

GoodLocation == <<"h","t","t","p",":","/","/","1","9","2",".","1","6","8",".","1",".","1","0",":","1","4","0","0","/","x","m","l","/","d","e","v","i","c","e","_","d","e","s","c","r","i","p","t","i","o","n",".","x","m","l">>

Locations == {GoodLocation, <<>>, <<" "," ">>, <<"h","t","t","p",":","/","/","1","9","2",".","1","6","8",".","1",".","1","0",":","1","4","0","0","/","%","z","z">>}

CallNowPlaying(ctx, device, position, transport, out) ==
    /\ libCall = NoCall
    /\ libCall' = [op |-> "NowPlaying", ctx |-> ctx, device |-> device,
                   position |-> position, transport |-> transport, out |-> out]
    /\ UNCHANGED <<listenerVars, genaCall, discoverVars, enrichVars>>

\* a query of a device that answers
QueryNowPlaying ==
    \E position \in PositionReplies, transport \in TransportReplies :
        CallNowPlaying("live", DeviceWithLocation(GoodLocation), position, transport,
                       NowPlaying("live", DeviceWithLocation(GoodLocation), position, transport))

\* the contexts and locations with which no request is sent
RejectedQueries ==
    {q \in {"nil", "live"} \X Locations : q[1] = "nil" \/ q[2] # GoodLocation}

\* an answer that would be good
GoodPosition ==
    Reply("ok", 200, "position", PositionBody(<<"x","-","r","i","n","c","o","n",":","1">>, <<>>))

GoodTransport == Reply("ok", 200, "state", TransportBody(StrPLAYING))

\* a query that cannot be sent
QueryNowPlayingRejected ==
    \E q \in RejectedQueries :
        CallNowPlaying(q[1], DeviceWithLocation(q[2]), GoodPosition, GoodTransport,
                       NowPlaying(q[1], DeviceWithLocation(q[2]), GoodPosition, GoodTransport))

NextNowPlaying == QueryNowPlaying \/ QueryNowPlayingRejected

SpecNowPlaying == Init /\ [][NextNowPlaying]_vars

(***************************************************************************)
(* The public operations up to their first network I/O: what each does     *)
(* with its context and the location of its device.  result is "error"     *)
(* for a returned error, "panic" for a run-time panic and "ok" when the    *)
(* operation goes on or returns without an error; io tells whether a       *)
(* socket was opened before.                                               *)
(***************************************************************************)
Entry(result, io, text) == [result |-> result, io |-> io, text |-> text]

\* Discover
DiscoverEntry(ctx) ==
    IF ctx = "nil" THEN Entry("error", FALSE, <<"s","o","n","o","s",":"," ","n","i","l"," ","c","o","n","t","e","x","t">>)
    ELSE Entry("ok", TRUE, <<>>)

\* enrichMetadata up to its request
enrichMetadataEntry(device) ==
    IF device.Location = <<>> THEN Entry("ok", FALSE, <<>>)
    ELSE Entry("ok", TRUE, <<>>)

\* EnrichDevices: ctx.Err() is called on the context once per device, before
\* anything else
EnrichDevicesEntry(ctx, listed) ==
    IF listed = <<>> THEN Entry("ok", FALSE, <<>>)
    ELSE IF ctx = "nil" THEN Entry("panic", FALSE, <<>>)
    ELSE enrichMetadataEntry(listed[1])

\* NowPlaying, for a device that would answer
NowPlayingEntry(ctx, device) ==
    LET out == NowPlaying(ctx, device, GoodPosition, GoodTransport)
    IN  IF out.err.kind \in {"nil_context", "location_empty", "parse_location"}
        THEN Entry("error", FALSE, out.err.text)
        ELSE Entry("ok", TRUE, <<>>)

\* SubscribeAVTransport: http.NewRequestWithContext refuses a nil context
SubscribeAVTransportEntry(ctx, device) ==
    IF avTransportEventURL(device) # NoError
    THEN Entry("error", FALSE, avTransportEventURL(device).text)
    ELSE IF ctx = "nil"
    THEN Entry("error", FALSE, <<"s","o","n","o","s",":"," ","c","r","e","a","t","e"," ","s","u","b","s","c","r","i","b","e"," ","r","e","q","u","e","s","t",":"," ","n","e","t","/","h","t","t","p",":"," ","n","i","l"," ","C","o","n","t","e","x","t">>)
    ELSE Entry("ok", TRUE, <<>>)

\* determineLocalCallbackAddr up to its dial: the address of the device comes
\* from its IP field or else from the host of its location
callbackAddrUnknown(device) ==
    /\ TrimSpace(device.IP) = <<>>
    /\ TrimSpace(device.Location) = <<>> \/ urlParseFails(TrimSpace(device.Location))

\* ListenForEvents: the callback address is dialled and the listener bound
\* before context.WithTimeout, which panics on a nil parent, and before
\* SubscribeAVTransport
ListenForEventsEntry(ctx, device) ==
    IF callbackAddrUnknown(device)
    THEN Entry("error", FALSE, <<"d","e","t","e","r","m","i","n","e"," ","l","o","c","a","l"," ","c","a","l","l","b","a","c","k"," ","a","d","d","r","e","s","s",":"," ","d","e","v","i","c","e"," ","I","P"," ","u","n","k","n","o","w","n">>)
    ELSE IF ctx = "nil" THEN Entry("panic", TRUE, <<>>)
    ELSE IF SubscribeAVTransportEntry(ctx, device).result = "error"
    THEN Entry("error", TRUE, SubscribeAVTransportEntry(ctx, device).text)
    ELSE Entry("ok", TRUE, <<>>)

Contexts == {"nil", "live"}

DeviceAtLocation(location, ip) == [Location |-> location, IP |-> ip]

EntryDevices ==
    {DeviceAtLocation(location, ip) :
        location \in {GoodLocation, <<>>, <<" "," ">>}, ip \in {<<>>, <<"1","9","2",".","1","6","8",".","1",".","1","0">>}}

\* the devices handed to EnrichDevices
EntryLists ==
    {<<>>} \cup {<<DeviceAtLocation(location, ip)>> :
                    location \in {GoodLocation, <<>>}, ip \in {<<>>, <<"1","9","2",".","1","6","8",".","1",".","1","0">>}}

CallEntry(name, ctx, given, out) ==
    /\ libCall = NoCall
    /\ libCall' = [op |-> "entry", name |-> name, ctx |-> ctx, given |-> given, out |-> out]
    /\ UNCHANGED <<listenerVars, genaCall, discoverVars, enrichVars>>

EnterDiscover == \E ctx \in Contexts : CallEntry("Discover", ctx, <<>>, DiscoverEntry(ctx))

EnterEnrichDevices ==
    \E ctx \in Contexts, listed \in EntryLists :
        CallEntry("EnrichDevices", ctx, listed, EnrichDevicesEntry(ctx, listed))

EnterNowPlaying ==
    \E ctx \in Contexts, device \in EntryDevices :
        CallEntry("NowPlaying", ctx, <<device>>, NowPlayingEntry(ctx, device))

EnterSubscribeAVTransport ==
    \E ctx \in Contexts, device \in EntryDevices :
        CallEntry("SubscribeAVTransport", ctx, <<device>>, SubscribeAVTransportEntry(ctx, device))

EnterListenForEvents ==
    \E ctx \in Contexts, device \in EntryDevices :
        CallEntry("ListenForEvents", ctx, <<device>>, ListenForEventsEntry(ctx, device))

NextEntry ==
    \/ EnterDiscover
    \/ EnterEnrichDevices
    \/ EnterNowPlaying
    \/ EnterSubscribeAVTransport
    \/ EnterListenForEvents

SpecEntry == Init /\ [][NextEntry]_vars

(***************************************************************************)
(* The GENA requests of one ListenForEvents call: the SUBSCRIBE, the       *)
(* renewals the loop sends on its ticks and the UNSUBSCRIBE on             *)
(* cancellation, as they go out.                                           *)
(***************************************************************************)
MaxRenewals == 3

\* url.Parse and URL.String with path, query and fragment emptied: scheme
\* and authority of an absolute location, nothing of another one
baseOf(location) ==
    LET marks == {i \in 1..(Len(location) - 2) : SubSeq(location, i, i + 2) = <<":","/","/">>}
        from  == Least(marks) + 3
        stop  == IndexOfAny(location, from, {"/", "?", "#"})
    IN  IF marks = {} THEN <<>> ELSE SubSeq(location, 1, stop - 1)

\* strings.TrimRight
RECURSIVE TrimRightChars(_, _)
TrimRightChars(s, cutset) ==
    IF s # <<>> /\ s[Len(s)] \in cutset
    THEN TrimRightChars(SubSeq(s, 1, Len(s) - 1), cutset)
    ELSE s

\* avTransportURL for a location that parses: the endpoint
avTransportEndpoint(device, suffix) ==
    TrimRightChars(baseOf(device.Location), {"/"})
        \o <<"/","M","e","d","i","a","R","e","n","d","e","r","e","r","/","A","V","T","r","a","n","s","p","o","r","t","/">> \o suffix

\* strconv formatting of a natural number
RECURSIVE FormatInt(_)
FormatInt(n) ==
    IF n < 10 THEN <<DigitChars[n + 1]>>
    ELSE FormatInt(n \div 10) \o <<DigitChars[(n % 10) + 1]>>

formatUPnPTimeout(d) ==
    IF d <= 0 THEN <<"S","e","c","o","n","d","-","0">> ELSE <<"S","e","c","o","n","d","-">> \o FormatInt(d \div Second)

\* textproto.CanonicalMIMEHeaderKey for a name of letters
CanonicalHeaderKey(name) ==
    [i \in 1..Len(name) |-> IF i = 1 THEN ToUpperChar(name[i]) ELSE ToLowerChar(name[i])]

\* Header.Set
HeaderSet(header, name, value) ==
    SelectSeq(header, LAMBDA h : h.name # CanonicalHeaderKey(name))
        \o <<[name |-> CanonicalHeaderKey(name), value |-> value]>>

\* Header.Get: "" when the header is not there
HeaderGet(header, name) ==
    IF \E k \in 1..Len(header) : header[k].name = CanonicalHeaderKey(name)
    THEN header[CHOOSE k \in 1..Len(header) : header[k].name = CanonicalHeaderKey(name)].value
    ELSE <<>>

HeaderHas(header, name) ==
    \E k \in 1..Len(header) : header[k].name = CanonicalHeaderKey(name)

GenaRequest(method, url, header) == [method |-> method, url |-> url, header |-> header]

\* the request SubscribeAVTransport sends
subscribeRequest(eventURL, callbackURL, timeout) ==
    GenaRequest("SUBSCRIBE", eventURL,
        HeaderSet(HeaderSet(HeaderSet(<<>>,
            <<"C","A","L","L","B","A","C","K">>, <<"<">> \o callbackURL \o <<">">>),
            <<"N","T">>, <<"u","p","n","p",":","e","v","e","n","t">>),
            <<"T","I","M","E","O","U","T">>, formatUPnPTimeout(IF timeout <= 0 THEN 30 * Minute ELSE timeout)))

\* a renewal that subscribes afresh
renewRequestAfresh(sub, timeout) ==
    subscribeRequest(sub.EventURL, <<"h","t","t","p",":","/","/","1","9","2",".","1","6","8",".","1",".","2",":","4","0","0","0","0","/","n","o","t","i","f","y">>, timeout)

\* the request RenewAVTransport sends
renewRequest(sub, timeout) ==
    GenaRequest("SUBSCRIBE", sub.EventURL,
        HeaderSet(HeaderSet(<<>>,
            <<"S","I","D">>, sub.ID),
            <<"T","I","M","E","O","U","T">>, formatUPnPTimeout(IF timeout > 0 THEN timeout
                                         ELSE IF sub.Timeout > 0 THEN sub.Timeout
                                         ELSE 30 * Minute)))

\* the request UnsubscribeAVTransport sends
unsubscribeRequest(sub) ==
    GenaRequest("UNSUBSCRIBE", sub.EventURL, HeaderSet(<<>>, <<"S","I","D">>, sub.ID))

CallbackURL == <<"h","t","t","p",":","/","/","1","9","2",".","1","6","8",".","1",".","2",":","4","0","0","0","0","/","n","o","t","i","f","y">>

\* locations of devices that can be subscribed to
RunLocations ==
    {GoodLocation, <<"h","t","t","p",":","/","/","1","9","2",".","1","6","8",".","1",".","1","1",":","1","4","0","0","/">>, <<"h","t","t","p",":","/","/","1","9","2",".","1","6","8",".","1",".","1","2",":","1","4","0","0","?","x","=","1","#","t","o","p">>}

\* the subscribe call at the start of a run; opts and the callback server
\* are left aside
RunSubscribe(device, answer) ==
    /\ libCall = NoCall
    /\ LET r == SubscribeAVTransport(answer, RequestedTimeout) IN
       libCall' =
          [op |-> "listen",
           device |-> device,
           answer |-> answer,
           pc |-> IF r.err # "" THEN "returned" ELSE "loop",
           ret |-> r.err,
           subscription |->
               IF r.err # "" THEN [ID |-> <<>>, Timeout |-> 0, EventURL |-> <<>>]
               ELSE [ID |-> r.sub.ID, Timeout |-> r.sub.Timeout,
                     EventURL |-> avTransportEndpoint(device, <<"E","v","e","n","t">>)],
           renewInterval |-> IF r.err = "" /\ r.sub.Timeout > 0
                             THEN RenewInterval(r.sub.Timeout) ELSE 0,
           renewals |-> 0,
           sent |-> <<subscribeRequest(avTransportEndpoint(device, <<"E","v","e","n","t">>),
                                       CallbackURL, RequestedTimeout)>>]
    /\ UNCHANGED <<listenerVars, genaCall, discoverVars, enrichVars>>

\* case <-renew of the run
RunRenew(resp) ==
    /\ libCall.op = "listen"
    /\ libCall.pc = "loop"
    /\ libCall.subscription.Timeout > 0
    /\ libCall.renewals < MaxRenewals
    /\ LET r == RenewAVTransport(libCall.subscription, libCall.subscription.Timeout, resp) IN
       libCall' =
          [libCall EXCEPT
              !.renewals = libCall.renewals + 1,
              !.sent = Append(libCall.sent,
                              renewRequest(libCall.subscription, libCall.subscription.Timeout)),
              !.subscription.Timeout =
                  IF r.err = "" /\ r.n > 0 THEN r.n ELSE libCall.subscription.Timeout,
              !.renewInterval =
                  IF r.err = "" /\ r.n > 0 THEN RenewInterval(r.n) ELSE libCall.renewInterval]
    /\ UNCHANGED <<listenerVars, genaCall, discoverVars, enrichVars>>

\* case <-ctx.Done() of the run
RunCancel ==
    /\ libCall.op = "listen"
    /\ libCall.pc = "loop"
    /\ libCall' =
          [libCall EXCEPT
              !.pc = "returned",
              !.ret = "nil",
              !.sent = Append(libCall.sent, unsubscribeRequest(libCall.subscription))]
    /\ UNCHANGED <<listenerVars, genaCall, discoverVars, enrichVars>>

RunStart ==
    \E location \in RunLocations, answer \in SubscribeResponses :
        RunSubscribe(DeviceWithLocation(location), answer)

RunTick ==
    \E resp \in RenewResponses : RunRenew(resp)

NextRun == RunStart \/ RunTick \/ RunCancel

SpecRun == Init /\ [][NextRun]_vars

(***************************************************************************)
(* The receive loop of Discover against the clock, in milliseconds: what   *)
(* ends it and when.  What a response holds is left to DiscoverRead; here  *)
(* a read times out, fails, or returns a response that is malformed, valid *)
(* or a match of the target room.                                          *)
(***************************************************************************)
ssdpTimeout == 250

ssdpQuietPeriod == 1 * Second

\* the zero time.Time
NoTime == 0 - 1

\* the timeout argument; 0 stands for the default of three seconds
ReceiveTimeouts == {0, 600, 1500}

\* how long a read can take before it returns a response or fails
ReadDelays == {0, ssdpTimeout \div 2}

\* Discover from the first write on
ReceiveStart(timeout, target) ==
    /\ libCall = NoCall
    /\ libCall' = [op |-> "receive",
                   pc |-> "reading",
                   why |-> "",
                   target |-> target,
                   now |-> 0,
                   deadline |-> IF timeout <= 0 THEN 3 * Second ELSE timeout,
                   lastResponse |-> NoTime,
                   ctxDone |-> FALSE]
    /\ UNCHANGED <<listenerVars, genaCall, discoverVars, enrichVars>>

\* the loop leaves with a reason
ReceiveEnd(why, now) == [libCall EXCEPT !.pc = "returned", !.why = why, !.now = now]

\* a loop that gives up after one quiet read
ReceiveReadEager(read, delay) ==
    LET remaining == libCall.deadline - libCall.now
        window    == IF remaining < ssdpTimeout THEN remaining ELSE ssdpTimeout
    IN  IF read = "timeout"
        THEN ReceiveEnd("quiet", libCall.now + window)
        ELSE [libCall EXCEPT !.now = libCall.now + delay]

\* ReadFromUDP under the read deadline and what follows it
ReceiveRead(read, delay) ==
    LET remaining == libCall.deadline - libCall.now
        window    == IF remaining < ssdpTimeout THEN remaining ELSE ssdpTimeout
        after     == libCall.now + (IF read = "timeout" THEN window ELSE delay)
    IN  CASE read = "timeout" ->
                 IF libCall.lastResponse # NoTime
                    /\ after - libCall.lastResponse >= ssdpQuietPeriod
                 THEN ReceiveEnd("quiet", after)
                 ELSE [libCall EXCEPT !.now = after]
          [] read = "cancelled" -> [ReceiveEnd("context", after) EXCEPT !.ctxDone = TRUE]
          [] read = "error" -> ReceiveEnd("read_error", after)
          [] read = "malformed" -> [libCall EXCEPT !.now = after]
          [] read = "match" ->
                 [ReceiveEnd("match", after) EXCEPT !.lastResponse = after]
          [] OTHER -> [libCall EXCEPT !.now = after, !.lastResponse = after]

\* one iteration of the loop.  A read whose deadline is not ahead times out
\* at once; a read that reports cancellation does so for a context that was
\* cancelled while it waited; only a call with a target room returns on a
\* match.
ReceiveIteration(read, delay) ==
    /\ libCall.op = "receive"
    /\ libCall.pc = "reading"
    /\ IF libCall.ctxDone THEN libCall' = ReceiveEnd("context", libCall.now)
       ELSE IF libCall.now > libCall.deadline
       THEN libCall' = ReceiveEnd("deadline", libCall.now)
       ELSE /\ read # "timeout" => libCall.now + delay < libCall.deadline
            /\ read = "match" => libCall.target
            /\ libCall' = ReceiveRead(read, delay)
    /\ UNCHANGED <<listenerVars, genaCall, discoverVars, enrichVars>>

\* the context is cancelled or runs out
ReceiveCancel ==
    /\ libCall.op = "receive"
    /\ libCall.pc = "reading"
    /\ ~libCall.ctxDone
    /\ libCall' = [libCall EXCEPT !.ctxDone = TRUE]
    /\ UNCHANGED <<listenerVars, genaCall, discoverVars, enrichVars>>

\* time passes between two iterations
ReceiveDelay ==
    /\ libCall.op = "receive"
    /\ libCall.pc = "reading"
    /\ libCall.now <= libCall.deadline
    /\ libCall' = [libCall EXCEPT !.now = libCall.now + (ssdpTimeout \div 2)]
    /\ UNCHANGED <<listenerVars, genaCall, discoverVars, enrichVars>>

ReceiveBegin ==
    \E timeout \in ReceiveTimeouts, target \in BOOLEAN : ReceiveStart(timeout, target)

ReceiveLoop ==
    \E read \in {"timeout", "cancelled", "error", "malformed", "match", "valid"},
       delay \in ReadDelays :
        ReceiveIteration(read, delay)

NextReceive == ReceiveBegin \/ ReceiveLoop \/ ReceiveCancel \/ ReceiveDelay

\* the goroutine that runs Discover is scheduled, and the clock goes on
SpecReceive ==
    Init /\ [][NextReceive]_vars /\ WF_vars(ReceiveLoop) /\ WF_vars(ReceiveDelay)

(***************************************************************************)
(* escapeAttributeMarkup byte by byte, over every string of a few bytes    *)
(* of markup.                                                              *)
(***************************************************************************)
MaxEscapeLen == 5

EscapeBytes == {"\"", "'", "<", ">", "/", "&", "a"}

EscapeInputs == UNION {[1..n -> EscapeBytes] : n \in 0..MaxEscapeLen}

\* the call and the state its loop starts from
EscapeStart(s) ==
    /\ libCall = NoCall
    /\ libCall' = [op |-> "escapeAttributeMarkup",
                   s |-> s,
                   i |-> 1,
                   st |-> [b |-> <<>>, inAttr |-> FALSE, attrQuote |-> "",
                           nestedDepth |-> 0, inNestedTag |-> FALSE,
                           nestedAttrQuote |-> ""]]
    /\ UNCHANGED <<listenerVars, genaCall, discoverVars, enrichVars>>

\* one turn of the loop
EscapeByte ==
    /\ libCall.op = "escapeAttributeMarkup"
    /\ libCall.i <= Len(libCall.s)
    /\ libCall' = [libCall EXCEPT !.i = libCall.i + 1,
                                  !.st = escapeStep(libCall.s, libCall.i, libCall.st)]
    /\ UNCHANGED <<listenerVars, genaCall, discoverVars, enrichVars>>

EscapeBegin == libCall = NoCall /\ \E s \in EscapeInputs : EscapeStart(s)

NextEscape == EscapeBegin \/ EscapeByte

SpecEscape == Init /\ [][NextEscape]_vars

(***************************************************************************)
(* buildTrackInfo over the metadata of radio streams: a title, a programme *)
(* title, a radio show and a stream description, each absent, blank or     *)
(* filled in.                                                              *)
(***************************************************************************)
RadioItem(title, programTitle, radioShow, streamContent) ==
    [title |-> title, programTitle |-> programTitle, radioShow |-> radioShow,
     streamContent |-> streamContent]

RadioDocument(item) ==
    <<"<","D","I","D","L","-","L","i","t","e"," ","x","m","l","n","s",":","d","c","=","\"","h","t","t","p",":","/","/","p","u","r","l",".","o","r","g","/","d","c","/","e","l","e","m","e","n","t","s","/","1",".","1","/","\""," ","x","m","l","n","s",":","r","=","\"","u","r","n",":","s","c","h","e","m","a","s","-","r","i","n","c","o","n","n","e","t","w","o","r","k","s","-","c","o","m",":","m","e","t","a","d","a","t","a","-","1","-","0","/","\""," ","x","m","l","n","s","=","\"","u","r","n",":","s","c","h","e","m","a","s","-","u","p","n","p","-","o","r","g",":","m","e","t","a","d","a","t","a","-","1","-","0","/","D","I","D","L","-","L","i","t","e","/","\"",">","<","i","t","e","m"," ","i","d","=","\"","-","1","\"",">","<","r",":","s","t","r","e","a","m","C","o","n","t","e","n","t",">">>
    \o EscapeString(item.streamContent)
    \o <<"<","/","r",":","s","t","r","e","a","m","C","o","n","t","e","n","t",">","<","r",":","r","a","d","i","o","S","h","o","w",">">> \o EscapeString(item.radioShow)
    \o <<"<","/","r",":","r","a","d","i","o","S","h","o","w",">","<","r",":","p","r","o","g","r","a","m","T","i","t","l","e",">">> \o EscapeString(item.programTitle)
    \o <<"<","/","r",":","p","r","o","g","r","a","m","T","i","t","l","e",">","<","d","c",":","t","i","t","l","e",">">> \o EscapeString(item.title)
    \o <<"<","/","d","c",":","t","i","t","l","e",">","<","/","i","t","e","m",">","<","/","D","I","D","L","-","L","i","t","e",">">>

RadioItems ==
    {RadioItem(title, programTitle, radioShow, streamContent) :
        title \in {<<>>, <<" "," ">>, <<" ","M","o","r","n","i","n","g"," ","S","h","o","w"," ">>},
        programTitle \in {<<>>, <<" ">>, <<"N","e","w","s"," ","H","o","u","r">>},
        radioShow \in {<<>>, <<" ">>, <<"R","a","d","i","o"," ","O","n","e"," ">>},
        streamContent \in {<<>>, <<" ">>, <<"L","i","v","e"," ","&"," ","D","i","r","e","c","t">>}}

CallBuildTrackInfo(in, out) ==
    /\ libCall = NoCall
    /\ libCall' = [op |-> "buildTrackInfo", in |-> in, out |-> out]
    /\ UNCHANGED <<listenerVars, genaCall, discoverVars, enrichVars>>

BuildTrack ==
    \E in \in RadioItems :
        CallBuildTrackInfo(in,
            buildTrackInfo([TrackMetaData |-> RadioDocument(in),
                            TrackURI |-> <<"x","-","r","i","n","c","o","n","-","m","p","3","r","a","d","i","o",":","/","/","r">>]))

NextTrack == BuildTrack

SpecTrack == Init /\ [][NextTrack]_vars

(***************************************************************************)
(* The idle timer against the clock.  Time is counted in ticks; the timer  *)
(* fires IdleTicks ticks after it was started or reset.  quiet is the time *)
(* since the loop last handled an event that was not filtered and not      *)
(* Playing, counted up to IdleTicks.                                       *)
(***************************************************************************)
IdleTicks == 3

\* a startIdleTimer that leaves a timer that exists alone
startIdleTimerOnce(timer, left, display) ==
    IF ~display THEN [timer |-> timer, left |-> left]
    ELSE IF timer = "nil" THEN [timer |-> "armed", left |-> IdleTicks]
    ELSE [timer |-> timer, left |-> left]

\* startIdleTimer with the time the timer has left: time.NewTimer and
\* Reset both take opts.IdleTimeout
startIdleTimerFor(timer, left, display) ==
    [timer |-> startIdleTimer(timer, display),
     left  |-> IF display THEN IdleTicks ELSE left]

\* ListenForEvents once it is in its loop
IdleRunStart(display) ==
    /\ libCall = NoCall
    /\ libCall' = [op |-> "idle", display |-> display, timer |-> "nil", left |-> 0,
                   quiet |-> IdleTicks, serviced |-> "", redundant |-> FALSE,
                   displayActive |-> FALSE]
    /\ UNCHANGED <<listenerVars, genaCall, discoverVars, enrichVars>>

\* case ev := <-notifyCh, as far as the timer goes: a filtered event is
\* dropped before the timer; a redundant one after it
IdleRunEvent(kind, redundant, shown) ==
    /\ libCall.op = "idle"
    /\ IF kind = "filtered"
       THEN libCall' = [libCall EXCEPT !.serviced = "filtered"]
       ELSE LET started == startIdleTimerFor(libCall.timer, libCall.left, libCall.display)
            IN  libCall' =
                  [libCall EXCEPT
                     !.serviced = kind,
                     !.redundant = redundant,
                     !.timer = IF kind = "playing" THEN stopIdleTimer(libCall.timer)
                               ELSE started.timer,
                     !.left = IF kind = "playing" THEN 0 ELSE started.left,
                     !.quiet = IF kind = "playing" THEN libCall.quiet ELSE 0,
                     !.displayActive = IF ~redundant /\ shown /\ libCall.display
                                       THEN TRUE ELSE libCall.displayActive]
    /\ UNCHANGED <<listenerVars, genaCall, discoverVars, enrichVars>>

\* a tick of the clock; the runtime sends on the channel of a timer whose
\* time is up
IdleRunTick ==
    /\ libCall.op = "idle"
    /\ libCall' =
          [libCall EXCEPT
             !.quiet = IF libCall.quiet < IdleTicks THEN libCall.quiet + 1 ELSE IdleTicks,
             !.left = IF libCall.timer = "armed" THEN libCall.left - 1 ELSE libCall.left,
             !.timer = IF libCall.timer = "armed" /\ libCall.left = 1
                       THEN "fired" ELSE libCall.timer]
    /\ UNCHANGED <<listenerVars, genaCall, discoverVars, enrichVars>>

\* case <-idleTimerCh
IdleRunClear ==
    /\ libCall.op = "idle"
    /\ libCall.timer = "fired"
    /\ libCall' = [libCall EXCEPT !.serviced = "idle",
                                  !.timer = stopIdleTimer(libCall.timer),
                                  !.displayActive = FALSE]
    /\ UNCHANGED <<listenerVars, genaCall, discoverVars, enrichVars>>

IdleRunBegin == \E display \in BOOLEAN : IdleRunStart(display)

IdleRunNotify ==
    \E kind \in {"filtered", "playing", "other"}, redundant \in BOOLEAN, shown \in BOOLEAN :
        IdleRunEvent(kind, redundant, shown)

NextIdle == IdleRunBegin \/ IdleRunNotify \/ IdleRunTick \/ IdleRunClear

SpecIdle == Init /\ [][NextIdle]_vars

(***************************************************************************)
(* Steps of the control loop, recognised from the variables they change.   *)
(***************************************************************************)
\* the loop took an event off the queue (nothing else ever shortens it)
EventStep == pc = "loop" /\ Len(notifyCh') < Len(notifyCh)

IdleStep == pc = "loop" /\ idleTimer = "fired" /\ serviced' = "idle" /\ UNCHANGED notifyCh

RenewStep == pc = "loop" /\ renewReady /\ ~renewReady'

ServerErrorStep == pc = "loop" /\ serverErrors # <<>> /\ serverErrors' = <<>>

CancelStep == pc = "loop" /\ ctxDone /\ serviced' = "cancel"

\* a callback handler answered or enqueued
HandlerStep == Len(notifyCh') > Len(notifyCh) \/ httpLog' # httpLog

B(p) == IF p THEN 1 ELSE 0

\* how many of the five sources of the select the step consumed
Consumed ==
    B(EventStep) + B(RenewStep) + B(ServerErrorStep) + B(CancelStep)
    + B(pc = "loop" /\ idleTimer = "fired" /\ idleTimer' # "fired" /\ ~EventStep)

(***************************************************************************)
(* C1: the NOTIFY handler never blocks on the event queue.  The queue      *)
(* never holds more than 16 events; a step only appends one event at the   *)
(* tail, removes the head, or leaves the queue as it is; and a handler     *)
(* that finds 16 events queued leaves the queue unchanged, records the     *)
(* event as dropped and answers 200.                                       *)
(***************************************************************************)
C1_QueueBounded ==
    [][/\ Len(notifyCh) <= 16
       /\ Len(notifyCh') <= 16
       /\ \/ notifyCh' = notifyCh
          \/ notifyCh # <<>> /\ notifyCh' = Tail(notifyCh)
          \/ /\ Len(notifyCh') = Len(notifyCh) + 1
             /\ SubSeq(notifyCh', 1, Len(notifyCh)) = notifyCh
             /\ httpLog' = [status |-> 200, outcome |-> "enqueued"]
       /\ (Len(notifyCh) = 16 /\ httpLog' # httpLog)
             => /\ notifyCh' = notifyCh
                /\ httpLog' = [status |-> 200, outcome |-> "dropped"]
       /\ (httpLog' # httpLog /\ httpLog'.outcome = "dropped") => Len(notifyCh) = 16]_vars

\* a handler has answered 200 after discarding an event at a full queue of
\* alternating events
C1_Witness ==
    /\ Len(notifyCh) = 16
    /\ notifyCh[1] # notifyCh[16]
    /\ httpLog = [status |-> 200, outcome |-> "dropped"]
    /\ server = "serving"

(***************************************************************************)
(* C2: orchestrator state is written only by the control loop, which       *)
(* services exactly one select case per iteration.  A step that changes    *)
(* lastState, lastTrackSignature, savedArtSignature, displayActive, the    *)
(* subscription lease or the renewal period, that disarms the idle timer,  *)
(* or that performs a side effect, is a step of the running loop that      *)
(* consumes exactly one of: one queued event, the renewal tick, the idle   *)
(* expiry, the server fault, the cancellation.  Art fetch and display      *)
(* writes happen in the step that takes the event or the idle expiry.  A   *)
(* handler step changes nothing but the queue and its own response.        *)
(***************************************************************************)
C2_SingleWriter ==
    [][/\ Consumed <= 1
       /\ EventStep => Len(notifyCh') = Len(notifyCh) - 1
       /\ ( \/ <<lastState, lastTrackSignature, savedArtSignature, displayActive,
                 panelLit>>' #
               <<lastState, lastTrackSignature, savedArtSignature, displayActive,
                 panelLit>>
            \/ idleTimer' # idleTimer /\ idleTimer' # "fired"
            \/ serviced' # serviced
            \/ pc = "loop" /\ effects' # effects )
             => pc = "loop" /\ Consumed = 1
       /\ (pc = "loop" /\ <<subscription, renewInterval>>' # <<subscription, renewInterval>>)
             => RenewStep /\ Consumed = 1
       /\ (effects' # effects /\ \E i \in 1..Len(effects') : effects'[i] \in {"fetch", "show"})
             => EventStep
       /\ (effects' # effects /\ \E i \in 1..Len(effects') : effects'[i] = "clear")
             => IdleStep
       /\ HandlerStep
             => UNCHANGED <<opts, pc, ret, ctxDone, server, serverErrors, lastState,
                            lastTrackSignature, savedArtSignature, displayActive,
                            idleTimer, subscription, renewInterval, renewReady,
                            serviced, effects, panelLit>>]_vars

\* the loop has handled an event, with art shown, while more events wait
\* and the renewal tick and a server fault are ready too
C2_Witness ==
    /\ pc = "loop"
    /\ serviced = "event"
    /\ effects = <<"fetch", "show">>
    /\ Len(notifyCh) >= 2
    /\ renewReady
    /\ serverErrors # <<>>

(***************************************************************************)
(* Properties of an event, stated without the operators of the loop.       *)
(***************************************************************************)
ReportsPlaying(ev) == ToUpper(TrimSpace(ev.TransportState)) = StrPLAYING

BeginsXSonos(ev) ==
    LET d == ToLower(TrimSpace(EventDisplay(ev)))
    IN  Len(d) >= 7 /\ SubSeq(d, 1, 7) = <<"x","-","s","o","n","o","s">>

(***************************************************************************)
(* C3 as claimed: whenever the idle expiry is serviced, Display.Clear is   *)
(* called exactly once, savedArtSignature is reset and the timer is        *)
(* disarmed.                                                               *)
(***************************************************************************)
C3_Original ==
    [][/\ (IdleStep /\ lastState # StrPlaying)
             => /\ effects' = <<"clear">>
                /\ savedArtSignature' = <<>>
                /\ idleTimer' = "nil"
       /\ (idleTimer # "fired" /\ idleTimer' = "fired") => idleTimer = "armed"
       /\ (idleTimer = "nil" /\ idleTimer' # "nil") => EventStep]_vars

(***************************************************************************)
(* C3 amended: the idle expiry is serviced only with a display configured  *)
(* and the last handled event not Playing; it calls Display.Clear exactly  *)
(* once when displayActive is true and not at all otherwise, leaves        *)
(* displayActive false, resets savedArtSignature and disarms the timer;    *)
(* Display.Clear is called by nothing else, and a disarmed timer is armed  *)
(* again only by handling an event whose state is not Playing.             *)
(***************************************************************************)
C3_IdleClearOnce ==
    [][/\ IdleStep => /\ opts.Display
                      /\ lastState # StrPlaying
                      /\ effects' = IF displayActive THEN <<"clear">> ELSE <<>>
                      /\ ~displayActive'
                      /\ savedArtSignature' = <<>>
                      /\ idleTimer' = "nil"
       /\ (effects' # effects /\ \E i \in 1..Len(effects') : effects'[i] = "clear")
             => IdleStep /\ displayActive
       /\ (idleTimer = "nil" /\ idleTimer' # "nil")
             => EventStep /\ idleTimer' = "armed" /\ lastState' # StrPlaying
       /\ (idleTimer # "fired" /\ idleTimer' = "fired") => idleTimer = "armed"]_vars

\* the idle expiry has cleared an active display after a pause
C3_Witness ==
    /\ serviced = "idle"
    /\ effects = <<"clear">>
    /\ lastState = StrPaused
    /\ idleTimer = "nil"
    /\ savedArtSignature = <<>>
    /\ ~displayActive
    /\ ~panelLit

(***************************************************************************)
(* C4: with a display configured and artwork showing, once an event        *)
(* reporting a transport state other than PLAYING waits alone in the       *)
(* queue, eventually the display is cleared, unless a further event        *)
(* arrives behind it or after it, or the listener returns.                 *)
(***************************************************************************)
C4_StaleArtCleared ==
    [](( /\ pc = "loop"
         /\ opts.Display
         /\ displayActive
         /\ Len(notifyCh) = 1
         /\ ~ReportsPlaying(Head(notifyCh)) )
          => <>( \/ ~displayActive
                 \/ pc = "returned"
                 \/ Len(notifyCh) >= 2
                 \/ notifyCh = <<>> /\ <>(notifyCh # <<>>) ))

(***************************************************************************)
(* C5: after the loop handles any event whose transport state is PLAYING,  *)
(* the idle timer is not armed, so the idle clear cannot fire while the    *)
(* most recently received event reported PLAYING.                          *)
(***************************************************************************)
C5_PlayingDisarms ==
    [][(EventStep /\ ReportsPlaying(Head(notifyCh))) => idleTimer' = "nil"]_vars

(***************************************************************************)
(* C6: an event whose formatted state equals lastState and whose signature *)
(* equals both lastTrackSignature and savedArtSignature is not acted upon: *)
(* no print, no art fetch, no Display.Show or Display.Clear, and           *)
(* lastState, lastTrackSignature, savedArtSignature, displayActive and     *)
(* the display itself unchanged.                                           *)
(***************************************************************************)
C6_RedundantEventSuppressed ==
    [][(/\ EventStep
        /\ EventState(Head(notifyCh)) = lastState
        /\ EventSignature(Head(notifyCh)) = lastTrackSignature
        /\ EventSignature(Head(notifyCh)) = savedArtSignature)
          => /\ effects' = <<>>
             /\ UNCHANGED <<lastState, lastTrackSignature, savedArtSignature,
                            displayActive, panelLit>>]_vars

\* the loop is about to handle a repeated pause of the track whose art is saved
C6_Witness ==
    /\ pc = "loop"
    /\ notifyCh # <<>>
    /\ Head(notifyCh) = EvPauseA
    /\ lastState = StrPaused
    /\ lastTrackSignature = EventSignature(EvPauseA)
    /\ savedArtSignature = EventSignature(EvPauseA)
    /\ opts.Debug

(***************************************************************************)
(* C7: an event whose display string, trimmed and in any letter case,      *)
(* begins with x-sonos is ignored: lastState, lastTrackSignature,          *)
(* savedArtSignature, displayActive, the idle timer and the display are    *)
(* unchanged and there is no print, art fetch or display write.            *)
(***************************************************************************)
C7_XSonosIgnored ==
    [][(EventStep /\ BeginsXSonos(Head(notifyCh)))
          => /\ effects' = <<>>
             /\ UNCHANGED <<lastState, lastTrackSignature, savedArtSignature,
                            displayActive, idleTimer, panelLit>>]_vars

\* the loop is about to handle an upper-case X-Sonos event while the idle
\* timer runs and art is displayed
C7_Witness ==
    /\ pc = "loop"
    /\ notifyCh # <<>>
    /\ Head(notifyCh) = EvPlayXSonos
    /\ idleTimer = "armed"
    /\ displayActive
    /\ opts.Debug

(***************************************************************************)
(* C8: while subscribed, the lease is positive and the renewal period is   *)
(* max(lease/2, 1 minute): 15 minutes for a 30-minute lease, 1 minute for  *)
(* a 30-second lease.                                                      *)
(***************************************************************************)
C8_RenewalPeriod ==
    subscription.ID # <<>>
       => /\ subscription.Timeout > 0
          /\ renewInterval >= 60000
          /\ 2 * renewInterval >= subscription.Timeout - 1
          /\ renewInterval > 60000 => 2 * renewInterval <= subscription.Timeout
          /\ subscription.Timeout = 1800000 => renewInterval = 900000
          /\ subscription.Timeout = 30000 => renewInterval = 60000

\* a renewal has shortened the lease to 30 seconds
C8_Witness ==
    /\ pc = "loop"
    /\ serviced = "renew"
    /\ subscription.Timeout = 30000
    /\ renewInterval = 60000

(***************************************************************************)
(* C9: the cancellation case shuts the server down, then makes one         *)
(* unsubscribe attempt, then returns nil whatever the attempt gave; nil is *)
(* returned by no other case, and after the return nothing happens: no     *)
(* event, renewal tick or idle expiry is handled and no request served.    *)
(***************************************************************************)
C9_CancelShutdown ==
    [][/\ CancelStep
             => /\ effects' \in {<<"shutdown", "unsubscribe_ok">>,
                                 <<"shutdown", "unsubscribe_failed">>}
                /\ server' = "closed"
                /\ pc' = "returned"
                /\ ret' = "nil"
       /\ (ret' = "nil" /\ ret # "nil") => CancelStep
       /\ pc = "returned" => UNCHANGED vars]_vars

\* the loop has returned nil after a failed unsubscribe, leaving an event,
\* a renewal tick unhandled
C9_Witness ==
    /\ pc = "returned"
    /\ ret = "nil"
    /\ effects = <<"shutdown", "unsubscribe_failed">>
    /\ notifyCh # <<>>
    /\ renewReady

(***************************************************************************)
(* C10: once the governing context is cancelled, ListenForEvents           *)
(* eventually returns, whatever else keeps becoming ready.                 *)
(***************************************************************************)
C10_CancelReturns == ctxDone ~> pc = "returned"

\* the loop returned on cancellation with an event queued, a renewal tick
\* pending and the idle timer fired
C10_Witness ==
    /\ ctxDone
    /\ pc = "returned"
    /\ serviced = "cancel"
    /\ notifyCh # <<>>
    /\ renewReady
    /\ idleTimer = "fired"

(***************************************************************************)
(* C11: a NOTIFY whose body fails to decode is answered 200 and changes    *)
(* nothing but the response: the queue, the control-loop state, the        *)
(* server and the listener's position are as before.  Right after it, a    *)
(* valid event can still be enqueued while the server runs, and a queued   *)
(* event can still be handled by the loop.                                 *)
(***************************************************************************)
C11_BadNotifyDropped ==
    [][/\ (httpLog' # httpLog /\ httpLog'.outcome = "parse_error")
             => /\ httpLog'.status = 200
                /\ UNCHANGED <<opts, pc, ret, ctxDone, server, serverErrors, notifyCh,
                               lastState, lastTrackSignature, savedArtSignature,
                               displayActive, idleTimer, subscription, renewInterval,
                               renewReady, serviced, effects, panelLit>>
       /\ (httpLog.outcome = "parse_error" /\ server = "serving")
             => ENABLED (\E req \in NotifyRequests(Events) :
                            /\ Handler(req)
                            /\ notifyCh' = Append(notifyCh, req.event))
       /\ (httpLog.outcome = "parse_error" /\ pc = "loop" /\ notifyCh # <<>>)
             => ENABLED (LoopEvent /\ notifyCh' = Tail(notifyCh))]_vars

\* an undecodable NOTIFY was answered while the loop runs with an event
\* queued and an earlier event handled
C11_Witness ==
    /\ httpLog = [status |-> 200, outcome |-> "parse_error"]
    /\ pc = "loop"
    /\ server = "serving"
    /\ notifyCh # <<>>
    /\ lastState # <<>>

(***************************************************************************)
(* C12 as claimed: once ListenForEvents has returned, a failure of the     *)
(* callback server has been reported: a bind failure is the returned       *)
(* error, and a serve error that occurred is the returned error.           *)
(***************************************************************************)
C12_Original ==
    /\ (pc = "returned" /\ server = "none") => ret \in {"addr_error", "listen_error"}
    /\ (pc = "returned" /\ serverErrors # <<>>) => ret = "callback server error"

(***************************************************************************)
(* C12 amended: a bind failure makes ListenForEvents return that error     *)
(* before it serves or subscribes; when the loop takes a serve error off   *)
(* serverErrors it shuts the server down and returns the wrapped error;    *)
(* binding and serving happen once, never again after a failure; and a     *)
(* serve error is left unreported only when the subscribe call fails or    *)
(* the cancellation case is taken first, nil being returned only by the    *)
(* cancellation case.                                                      *)
(***************************************************************************)
C12_ServerFaultFatal ==
    [][/\ (pc = "start" /\ pc' = "returned")
             => /\ ret' \in {"addr_error", "listen_error"}
                /\ server' = "none"
                /\ subscription' = NoSubscription
       /\ ServerErrorStep
             => /\ ret' = "callback server error"
                /\ pc' = "returned"
                /\ server' = "closed"
       /\ (server' = "serving" /\ server # "serving") => (pc = "start" /\ server = "none")
       /\ (pc' = "returned" /\ pc # "returned" /\ serverErrors' # <<>>)
             => \/ CancelStep /\ ret' = "nil"
                \/ pc = "subscribing" /\ ret' \in {"transport", "status", "missing_sid"}]_vars

\* the loop returned the serve error although cancellation was pending and
\* an event was queued
C12_Witness ==
    /\ pc = "returned"
    /\ ret = "callback server error"
    /\ serviced = "server_error"
    /\ server = "closed"
    /\ serverErrors = <<>>
    /\ ctxDone
    /\ notifyCh # <<>>

(***************************************************************************)
(* C13: whenever ListenForEvents has returned after a successful           *)
(* subscribe, the iteration that returned attempted an unsubscribe for     *)
(* that subscription.                                                      *)
(***************************************************************************)
C13_UnsubscribeOnReturn ==
    (pc = "returned" /\ subscription.ID # <<>>)
       => \E i \in 1..Len(effects) :
             effects[i] \in {"unsubscribe_ok", "unsubscribe_failed"}

(***************************************************************************)
(* C14: a successful SubscribeAVTransport returns the device's SID and,    *)
(* as Timeout, the device's TIMEOUT header when that is Second-<n> with n  *)
(* a positive whole number of seconds, and in every other case the         *)
(* requested timeout (30 minutes when none was requested); the Timeout is  *)
(* always positive.                                                        *)
(***************************************************************************)
C14_NegotiatedTimeout ==
    (genaCall.op = "subscribe" /\ genaCall.out.err = "")
       => LET hdr       == TrimSpace(ToLower(genaCall.resp.timeout))
              digits    == SubSeq(hdr, 8, Len(hdr))
              isSecondN == /\ Len(hdr) > 7
                           /\ SubSeq(hdr, 1, 7) = <<"s","e","c","o","n","d","-">>
                           /\ \A i \in 1..Len(digits) : IsDigit(digits[i])
              requested == IF genaCall.timeout > 0 THEN genaCall.timeout ELSE 1800000
          IN  /\ genaCall.out.sub.ID = TrimSpace(genaCall.resp.sid)
              /\ genaCall.out.sub.ID # <<>>
              /\ genaCall.out.sub.Timeout > 0
              /\ genaCall.out.sub.Timeout =
                    IF isSecondN /\ ParseDigits(digits) > 0
                    THEN ParseDigits(digits) * 1000
                    ELSE requested

(***************************************************************************)
(* C15: for Subscribe, Renew and Unsubscribe, a response whose status is   *)
(* not 2xx gives an error that carries the response status and a snippet   *)
(* of the body, taken from its first 512 bytes, and Subscribe then         *)
(* returns no Subscription.                                                *)
(***************************************************************************)
C15_StatusErrors ==
    (/\ genaCall.op \in {"subscribe", "renew", "unsubscribe"}
     /\ genaCall.resp.transport = "ok"
     /\ genaCall.resp.status \notin 200..299)
       => /\ genaCall.out.err = "status"
          /\ genaCall.out.detail.status = genaCall.resp.status
          /\ Len(genaCall.out.detail.snippet) <= 512
          /\ \/ genaCall.out.detail.snippet = <<>>
             \/ \E i \in 1..512 :
                   /\ i + Len(genaCall.out.detail.snippet) - 1 <= 512
                   /\ i + Len(genaCall.out.detail.snippet) - 1 <= Len(genaCall.resp.body)
                   /\ genaCall.out.detail.snippet =
                         SubSeq(genaCall.resp.body, i, i + Len(genaCall.out.detail.snippet) - 1)
          /\ genaCall.op = "subscribe" => genaCall.out.sub = NoSubscription
          /\ genaCall.op = "renew" => genaCall.out.n = 0

\* a subscribe answered 412 with a body longer than 512 bytes
C15_Witness ==
    /\ genaCall.op = "subscribe"
    /\ genaCall.resp.status = 412
    /\ Len(genaCall.resp.body) > 512
    /\ genaCall.out.err = "status"
    /\ Len(genaCall.out.detail.snippet) = 512


(***************************************************************************)
(* Discovery, as its callers see it.                                       *)
(***************************************************************************)
\* the packet is an HTTP/1.1 200 response whose header block parses
ValidAdvertisement(packet) == parseResponse(packet).err = ""

\* the device a valid advertisement describes
AdvertisedDevice(packet) == [parseResponse(packet).device EXCEPT !.IP = packet.ip]

\* the advertisement's USN, or its sender's address when it has none
AdvertisedKey(packet) ==
    IF packet.headers.USN = <<>> THEN packet.ip ELSE packet.headers.USN

\* the last valid advertisement of every key among the packets
LastPerKey(packets) ==
    {AdvertisedDevice(packets[i]) :
        i \in {k \in 1..Len(packets) :
                 /\ ValidAdvertisement(packets[k])
                 /\ \A j \in (k + 1)..Len(packets) :
                       ValidAdvertisement(packets[j])
                           => AdvertisedKey(packets[j]) # AdvertisedKey(packets[k])}}

\* C16: when Discover returns without a target-room match, its result holds
\* exactly one device for every key (USN, or sender address without a USN),
\* namely the last valid advertisement received with that key; and a packet
\* that is malformed or not a 200 response changes nothing and ends nothing.
C16_LastPerKey ==
    [][/\ (discoverPc = "reading" /\ discoverPc' = "returned" /\ discoverOut'.err = ""
           /\ received' = received)
          => /\ {discoverOut'.devices[i] : i \in 1..Len(discoverOut'.devices)}
                   = LastPerKey(received)
             /\ Len(discoverOut'.devices) = Cardinality(LastPerKey(received))
       /\ (received' # received /\ ~ValidAdvertisement(received'[Len(received')]))
          => UNCHANGED <<devices, indexByKey, discoverPc, discoverOut>>]_vars

C16_Witness ==
    /\ discoverPc = "returned"
    /\ discoverOut.err = ""
    /\ Len(received) = MaxPackets
    /\ \E i, j, k \in 1..Len(received) :
          /\ i < j
          /\ ValidAdvertisement(received[i]) /\ ValidAdvertisement(received[j])
          /\ AdvertisedKey(received[i]) = AdvertisedKey(received[j])
          /\ AdvertisedDevice(received[i]) # AdvertisedDevice(received[j])
          /\ ~ValidAdvertisement(received[k])
          /\ discoverOut.devices = <<AdvertisedDevice(received[j])>>
    /\ canonicalRoomName(targetRoom) = <<>>


\* a target room is given: it is not blank
TargetGiven == canonicalRoomName(targetRoom) # <<>>

\* the advertisement is classified Sonos and its ROOMNAME or FRIENDLYNAME
\* header is the target, letter case and surrounding blanks aside
NamesTarget(packet) ==
    /\ ValidAdvertisement(packet)
    /\ AdvertisedDevice(packet).IsSonos
    /\ \/ canonicalRoomName(packet.headers.ROOMNAME) = canonicalRoomName(targetRoom)
       \/ canonicalRoomName(packet.headers.FRIENDLYNAME) = canonicalRoomName(targetRoom)

\* the advertisement is classified Sonos and its FRIENDLYNAME header has
\* several words, of which all but the last, joined by single blanks, are the
\* target
NamesTargetBeforeLastWord(packet) ==
    /\ ValidAdvertisement(packet)
    /\ AdvertisedDevice(packet).IsSonos
    /\ LET parts == Fields(packet.headers.FRIENDLYNAME)
       IN  /\ Len(parts) > 1
           /\ ToLower(Join(SubSeq(parts, 1, Len(parts) - 1), <<" ">>))
                 = canonicalRoomName(targetRoom)

\* the read of this step ended the call with the packet's device alone
ReturnsOnlyLastPacket ==
    /\ discoverPc' = "returned"
    /\ discoverOut' = [devices |-> <<AdvertisedDevice(received'[Len(received')])>>,
                       err |-> ""]

\* C17 as stated: with a target room, a packet ends the call with its device
\* alone exactly when it is a Sonos advertisement whose ROOMNAME or
\* FRIENDLYNAME is the target; any other packet leaves the call reading.
C17_Original ==
    [][(TargetGiven /\ received' # received)
          => IF NamesTarget(received'[Len(received')])
             THEN ReturnsOnlyLastPacket
             ELSE discoverPc' = "reading" /\ UNCHANGED discoverOut]_vars

\* C17: with a non-blank target room, a packet ends the call with its device
\* alone, whatever was collected before, exactly when it is a Sonos
\* advertisement whose ROOMNAME, FRIENDLYNAME, or FRIENDLYNAME without its
\* last word is the target (case-insensitive, trimmed); any other packet
\* leaves the call reading, and a call that ends without such a packet
\* returns the last advertisement of every key.  A blank target never ends
\* the call early.
C17_EarlyExit ==
    [][/\ (TargetGiven /\ received' # received)
          => IF \/ NamesTarget(received'[Len(received')])
                \/ NamesTargetBeforeLastWord(received'[Len(received')])
             THEN ReturnsOnlyLastPacket
             ELSE discoverPc' = "reading" /\ UNCHANGED discoverOut
       /\ (~TargetGiven /\ received' # received)
          => discoverPc' = "reading" /\ UNCHANGED discoverOut
       /\ (discoverPc = "reading" /\ discoverPc' = "returned" /\ discoverOut'.err = ""
           /\ received' = received)
          => /\ \A i \in 1..Len(received) :
                   ~(TargetGiven /\ (NamesTarget(received[i])
                                     \/ NamesTargetBeforeLastWord(received[i])))
             /\ {discoverOut'.devices[i] : i \in 1..Len(discoverOut'.devices)}
                   = LastPerKey(received)]_vars

\* a match on the shortened friendly name alone, after other devices were
\* collected
C17_Witness ==
    /\ discoverPc = "returned"
    /\ discoverOut.err = ""
    /\ TargetGiven
    /\ Len(received) = MaxPackets
    /\ devices # <<>>
    /\ NamesTargetBeforeLastWord(received[Len(received)])
    /\ ~NamesTarget(received[Len(received)])
    /\ discoverOut.devices = <<AdvertisedDevice(received[Len(received)])>>


\* a comes strictly before b by address, then by location
Precedes(a, b) ==
    \/ StringLess(a.IP, b.IP)
    \/ a.IP = b.IP /\ StringLess(a.Location, b.Location)

\* no element of the list comes strictly before an earlier one
OrderedByAddressThenLocation(list) ==
    \A i, j \in 1..Len(list) : i < j => ~Precedes(list[j], list[i])

\* the lists holding each device of the set once
Arrangements(set) ==
    {list \in [1..Cardinality(set) -> set] :
        \A i, j \in 1..Cardinality(set) : i # j => list[i] # list[j]}

\* C18: the list Discover returns from the end of its loop is ordered by
\* address then location, and it is the only list a run ending with the same
\* set of devices can return, whatever the order of arrival.
C18_DeterministicOrder ==
    [][(discoverPc = "reading" /\ discoverPc' = "returned" /\ discoverOut'.err = ""
        /\ received' = received)
          => /\ OrderedByAddressThenLocation(discoverOut'.devices)
             /\ \A list \in Arrangements(LastPerKey(received)) :
                   OrderedByAddressThenLocation(list) => list = discoverOut'.devices]_vars

\* the ordering alone, which does hold
ReturnedListOrdered ==
    [][(discoverPc = "reading" /\ discoverPc' = "returned" /\ discoverOut'.err = ""
        /\ received' = received)
          => OrderedByAddressThenLocation(discoverOut'.devices)]_vars


(***************************************************************************)
(* Enrichment, as its callers see it.                                      *)
(***************************************************************************)
\* the step is one attempt of the loop of EnrichDevices
AttemptStep == enrichPc = "loop" /\ enrichI' = enrichI + 1

\* the step is the return of EnrichDevices
ReturnStep == enrichPc = "loop" /\ enrichPc' = "returned"

\* C19: EnrichDevices goes on after a failed attempt; it returns a list as
\* long as its input, each device at its place, those whose attempt failed or
\* was not made being as they were given; the error it returns is the first
\* error it met (the deadline error itself when that first error is a fetch
\* cut short by the deadline), nil if it met none, and is not nil when the
\* context's deadline passed during a fetch.
C19_BatchContract ==
    [][/\ AttemptStep
          => /\ enrichPc' = "loop"
             /\ firstErr # "" => firstErr' = firstErr
             /\ firstErr' # firstErr => enriched' = enriched
             /\ (ctxErr = "" /\ ctxErr' = "deadline") => firstErr' # ""
             /\ \A j \in 1..Len(enriched) :
                   j # enrichI => enriched'[j] = enriched[j]
       /\ ReturnStep
          => /\ Len(enrichOut'.devices) = Len(enrichInput)
             /\ \A j \in 1..Len(enrichInput) :
                   /\ enrichOut'.devices[j].IP = enrichInput[j].IP
                   /\ enrichOut'.devices[j].Location = enrichInput[j].Location
                   /\ j >= enrichI => enrichOut'.devices[j] = enrichInput[j]
             /\ firstErr # ""
                   => \/ enrichOut'.err = firstErr
                      \/ firstErr = "fetch_deadline" /\ enrichOut'.err = "deadline"
             /\ (firstErr = "" /\ ctxErr = "") => enrichOut'.err = ""]_vars


\* C20: a device flagged Sonos when given to enrichment is flagged Sonos
\* after every attempt and in the returned list, whatever was fetched and
\* whether or not the attempt failed; the flag only ever turns from false to
\* true.
C20_FlagNeverRetracted ==
    /\ Len(enriched) = Len(enrichInput)
    /\ \A j \in 1..Len(enrichInput) : enrichInput[j].IsSonos => enriched[j].IsSonos
    /\ enrichPc = "returned"
          => /\ Len(enrichOut.devices) = Len(enrichInput)
             /\ \A j \in 1..Len(enrichInput) :
                   enrichInput[j].IsSonos => enrichOut.devices[j].IsSonos

\* a flagged device whose document names no Sonos product, a flagged device
\* whose attempt failed, and an unflagged device turned Sonos by its document
C20_Witness ==
    /\ enrichPc = "returned"
    /\ \E j \in 1..Len(enrichInput) :
          /\ enrichInput[j].IsSonos
          /\ enrichOut.devices[j].IsSonos
          /\ enrichOut.devices[j].Metadata # NoMetadata
          /\ ~isSonosDevice(enrichOut.devices[j].Metadata)
    /\ \/ firstErr # ""
       \/ \E j \in 1..Len(enrichInput) :
             ~enrichInput[j].IsSonos /\ enrichOut.devices[j].IsSonos


(***************************************************************************)
(* Device descriptions, as their readers see them.                         *)
(***************************************************************************)
\* the call parsed a document made of device parts
ParsedParts == libCall.op = "parseDeviceDescription" /\ "parts" \in DOMAIN libCall

\* the text of the last field of that name among the device's own parts,
\* blanks at its ends removed; empty when the device has no such field
RECURSIVE OwnField(_, _)
OwnField(parts, name) ==
    IF parts = <<>> THEN <<>>
    ELSE LET last == parts[Len(parts)]
         IN  IF last.part = "field" /\ last.name = name
             THEN TrimSpace(last.text)
             ELSE OwnField(SubSeq(parts, 1, Len(parts) - 1), name)

\* C21: the friendlyName, roomName and deviceType that parseDeviceDescription
\* reports are those of the device under the root alone; devices nested
\* deeper, however many and wherever they stand, change none of them.
C21_OuterDeviceOnly ==
    ParsedParts
        => \A name \in {"friendlyName", "roomName", "deviceType", "manufacturer"} :
               libCall.out.meta[name] = OwnField(libCall.parts, name)

\* nested devices before and after the outer device's own fields
C21_Witness ==
    /\ ParsedParts
    /\ Len(libCall.parts) = MaxParts
    /\ libCall.parts[1].part = "listed"
    /\ libCall.parts[2].part = "field" /\ libCall.parts[2].name = "friendlyName"
    /\ libCall.parts[3].part = "child"
    /\ libCall.out.err = ""
    /\ libCall.out.meta.friendlyName = <<"H", "u", "b">>
    /\ libCall.out.meta.roomName = <<>>

\* C22: when parseDeviceDescription finds neither a deviceType nor a
\* friendlyName for the top-level device, it returns an error, also when the
\* top-level device element is there without either field.
C22_MissingIdentityIsError ==
    libCall.op = "parseDeviceDescription"
        => (libCall.out.meta.deviceType = <<>> /\ libCall.out.meta.friendlyName = <<>>
               => libCall.out.err # "")


(***************************************************************************)
(* Entity repair, as its callers see it.                                   *)
(***************************************************************************)
\* the five references XML defines
KnownEntityNames == {<<"a","m","p">>, <<"l","t">>, <<"g","t">>, <<"q","u","o","t">>, <<"a","p","o","s">>}

\* at index i begins a reference: & then a known name, or # and digits, or
\* #x and hexadecimal digits, then ;
BeginsReference(s, i) ==
    /\ s[i] = "&"
    /\ \E j \in (i + 2)..Len(s) :
          /\ s[j] = ";"
          /\ LET name == SubSeq(s, i + 1, j - 1)
             IN  \/ name \in KnownEntityNames
                 \/ /\ name[1] = "#" /\ Len(name) > 1
                    /\ \A k \in 2..Len(name) : IsDigit(name[k])
                 \/ /\ name[1] = "#" /\ Len(name) > 2 /\ name[2] \in {"x", "X"}
                    /\ \A k \in 3..Len(name) : name[k] \in HexDigitChars

\* every & that begins no reference turned into &amp;, all else as it was
RECURSIVE EscapedStrays(_, _)
EscapedStrays(s, i) ==
    IF i > Len(s) THEN <<>>
    ELSE (IF s[i] = "&" /\ ~BeginsReference(s, i) THEN StrAmpEntity ELSE <<s[i]>>)
            \o EscapedStrays(s, i + 1)

\* C29: sanitizeInvalidEntities turns every & that does not begin a valid
\* reference (a known name, #digits or #x hex-digits, closed by ;) into
\* &amp; and leaves every valid reference and every other character as it
\* was and in place; "Rock &vibe & Roll &" becomes
\* "Rock &amp;vibe &amp; Roll &amp;".
C29_SanitizeStrays ==
    libCall.op = "sanitizeInvalidEntities"
        => /\ libCall.out = EscapedStrays(libCall.s, 1)
           /\ libCall.s = StrRockAndRoll
                 => libCall.out = <<"R","o","c","k"," ","&","a","m","p",";","v","i","b","e"," ","&","a","m","p",";"," ","R","o","l","l"," ","&","a","m","p",";">>


(***************************************************************************)
(* Claims about AVTransport events.                                        *)
(***************************************************************************)
ParsedEvent == libCall.op = "ParseAVTransportEvent"

\* C25: ParseAVTransportEvent returns an error (and no other outcome, such
\* as a panic) when no property of the body carries a non-blank LastChange
\* value, and when the repaired LastChange document holds no InstanceID.
C25_MalformedEventIsError ==
    ParsedEvent =>
        /\ libCall.in.shape \in {"no_lastchange", "blank_lastchange"}
              => libCall.out.err = "event_missing_lastchange"
        /\ libCall.in.shape = "no_instance"
              => /\ ~Contains(prepareLastChangeXML(LastChangeValue(libCall.in)), <<"<","I","n","s","t","a","n","c","e","I","D">>)
                 /\ libCall.out.err = "last_change_missing_instance"
        /\ libCall.out.err # "" => libCall.out.event = NoEvent

C25_Witness ==
    /\ ParsedEvent
    /\ libCall.in.shape = "no_instance"
    /\ libCall.out.err = "last_change_missing_instance"


\* C26: when the CurrentTrackMetaData of an otherwise valid event is not a
\* DIDL-Lite document, ParseAVTransportEvent succeeds with the transport
\* state and a Track in which nothing but the URI is set; metadata that
\* reads NOT_IMPLEMENTED in any letter case gives what absent metadata gives.
C26_BrokenMetadataKeepsURI ==
    (ParsedEvent /\ libCall.in.shape = "event") =>
        /\ libCall.in.meta.kind = "broken" =>
              /\ libCall.out.err = ""
              /\ libCall.out.event.TransportState = libCall.in.state
              /\ libCall.out.event.Track =
                    [ZeroTrackInfo EXCEPT !.URI = libCall.out.event.Track.URI]
              /\ libCall.in.uri # <<>> => libCall.out.event.Track.URI # <<>>
        /\ libCall.in.meta.kind = "marker" =>
              libCall.out = ParseAVTransportEvent(EventBody(
                  [libCall.in EXCEPT !.meta = Metadata("none", <<>>, libCall.in.meta.item)]))

C26_Witness ==
    /\ ParsedEvent
    /\ libCall.in.shape = "event"
    /\ libCall.in.meta.kind = "broken"
    /\ parseTrackMetadata(libCall.in.meta.text).err
    /\ parseTrackMetadata(libCall.in.meta.text).item.Title # <<>>
    /\ libCall.in.uri # <<>>
    /\ libCall.out.err = ""
    /\ libCall.out.event.Track.URI # <<>>
    /\ libCall.out.event.Track.Title = <<>>


\* what a strict decoder reads from a LastChange document: whether it is
\* well formed, its elements in order, and the three values of the first
\* InstanceID
DecodedLastChange(text) ==
    LET toks      == XmlTokens(text)
        starts    == {k \in 1..Len(toks) : toks[k].kind = "start"}
        instances == ElementsIn(toks, RootStart(toks), <<<<"I","n","s","t","a","n","c","e","I","D">>>>)
        value(e)  == IF instances = {} THEN <<>>
                     ELSE AttrField(toks, Least(instances), <<e>>, <<"v","a","l">>)
    IN  IF RootEnd(toks) = 0 THEN [ok |-> FALSE]
        ELSE [ok       |-> TRUE,
              elements |-> {toks[k].path : k \in starts},
              state    |-> value(<<"T","r","a","n","s","p","o","r","t","S","t","a","t","e">>),
              uri      |-> value(<<"C","u","r","r","e","n","t","T","r","a","c","k","U","R","I">>),
              meta     |-> value(<<"C","u","r","r","e","n","t","T","r","a","c","k","M","e","t","a","D","a","t","a">>)]

\* C27: for a LastChange value that is a well-formed document escaped once,
\* the repaired text decodes to the same elements and the same
\* TransportState, CurrentTrackURI and CurrentTrackMetaData values as the
\* document itself, values with an escaped ampersand included.
C27_RepairIsIdentity ==
    libCall.op = "prepareLastChangeXML" =>
        DecodedLastChange(libCall.out) = DecodedLastChange(LastChangeDocument(libCall.in))


\* an event whose metadata is a DIDL-Lite item, escaped once inside the
\* LastChange document and once more with it
ParsedItemEvent ==
    /\ ParsedEvent
    /\ libCall.in.shape \in {"event", "second_property"}
    /\ libCall.in.meta.kind = "item"

\* C28: for a NOTIFY body whose CurrentTrackMetaData holds a DIDL-Lite item
\* escaped one level deeper than the LastChange document around it,
\* ParseAVTransportEvent returns the transport state, the CurrentTrackURI and
\* the title, creator, album and albumArtURI of the item as they were
\* before any escaping.
C28_DoubleEscapedItem ==
    ParsedItemEvent =>
        /\ libCall.out.err = ""
        /\ libCall.out.event.TransportState = libCall.in.state
        /\ libCall.out.event.Track.URI = libCall.in.uri
        /\ libCall.out.event.Track.Title = libCall.in.meta.item.title
        /\ libCall.out.event.Track.Artist = libCall.in.meta.item.creator
        /\ libCall.out.event.Track.Album = libCall.in.meta.item.album
        /\ libCall.out.event.Track.AlbumArtURI = libCall.in.meta.item.albumArtURI


(***************************************************************************)
(* Claims about NowPlaying.                                                *)
(***************************************************************************)
\* a query that was sent and answered
Answered ==
    /\ libCall.op = "NowPlaying"
    /\ libCall.ctx = "live"
    /\ libCall.device.Location = GoodLocation
    /\ libCall.position.outcome = "ok"

\* the fault in the body of the answer to GetPositionInfo
AnsweredFault == soapFault(XmlTokens(libCall.position.body))

\* the most specific description a fault offers
MostSpecific(fault) ==
    IF fault.ErrorDescription # <<>> THEN fault.ErrorDescription
    ELSE IF fault.FaultString # <<>> THEN fault.FaultString
    ELSE IF fault.ErrorCode # <<>> THEN <<"U","P","n","P","E","r","r","o","r"," ">> \o fault.ErrorCode
    ELSE <<>>

\* C23: whenever the body of the answer to GetPositionInfo holds a SOAP
\* Fault, NowPlaying returns an error whose text contains the most specific
\* description of the fault: the errorDescription, else the faultstring, else
\* "UPnPError <code>".
C23_FaultDescription ==
    (Answered /\ libCall.position.kind = "fault") =>
        /\ libCall.out.err # NoError
        /\ Contains(libCall.out.err.text, MostSpecific(AnsweredFault))


\* the position query succeeded: status 200, an envelope with a response,
\* and track info built from it (part_000:529-550 returned no error)
PositionSucceeded ==
    /\ Answered
    /\ libCall.position.status = 200
    /\ parsePositionInfoResponse(libCall.position.body).err = NoError
    /\ buildTrackInfo(parsePositionInfoResponse(libCall.position.body).resp).err = ""

\* GetTransportInfo failed: no answer, a status other than 200, a fault, or
\* a body that is no envelope with a response
TransportFailed ==
    \/ libCall.transport.outcome # "ok"
    \/ libCall.transport.status # 200
    \/ libCall.transport.kind # "state"

BadEntry ==
    /\ libCall.op = "entry"
    /\ \/ libCall.ctx = "nil"
       \/ \E k \in 1..Len(libCall.given) : libCall.given[k].Location = <<>>

\* C30: Discover, EnrichDevices, NowPlaying, SubscribeAVTransport and
\* ListenForEvents, given a nil context or a device with an empty location,
\* return an error with a text before any network I/O; none panics and none
\* goes on without an error.
C30_FailFast ==
    BadEntry =>
        /\ libCall.out.result = "error"
        /\ ~libCall.out.io
        /\ libCall.out.text # <<>>


(***************************************************************************)
(* C31: a request to the callback path whose method is not NOTIFY is       *)
(* answered 405; it enqueues nothing and changes nothing of the listener   *)
(* but the response, whatever its body and whatever is queued.             *)
(***************************************************************************)
C31_OtherMethodRefused ==
    [][/\ \A req \in OtherMethodRequests \cup BadRequests :
             (req.method # "NOTIFY" /\ Handler(req))
                => /\ httpLog' = [status |-> 405, outcome |-> "not_allowed"]
                   /\ UNCHANGED <<opts, pc, ret, ctxDone, server, serverErrors, notifyCh,
                                  lastState, lastTrackSignature, savedArtSignature,
                                  displayActive, idleTimer, subscription, renewInterval,
                                  renewReady, serviced, effects, panelLit>>
       /\ (httpLog' # httpLog /\ httpLog'.status = 405)
             => UNCHANGED <<opts, pc, ret, ctxDone, server, serverErrors, notifyCh,
                            lastState, lastTrackSignature, savedArtSignature,
                            displayActive, idleTimer, subscription, renewInterval,
                            renewReady, serviced, effects, panelLit>>]_vars

\* a request with another method was refused while the loop runs with an
\* event queued and an earlier event handled
C31_Witness ==
    /\ httpLog = [status |-> 405, outcome |-> "not_allowed"]
    /\ pc = "loop"
    /\ server = "serving"
    /\ notifyCh # <<>>
    /\ lastState # <<>>


(***************************************************************************)
(* Claims about the GENA requests of a run.                                *)
(***************************************************************************)
\* request k of the run is a renewal
IsRenewal(k) == k > 1 /\ libCall.sent[k].method = "SUBSCRIBE"

\* the SID the device returned to the initial subscribe
ReturnedSID == TrimSpace(libCall.answer.sid)

\* C32: every renewal of a run is a SUBSCRIBE to the event URL of the
\* subscription with a SID and a TIMEOUT header and neither CALLBACK nor NT;
\* every renewal and the UNSUBSCRIBE, which is the last request, carry the
\* SID the device returned to the initial subscribe.
C32_RenewalCarriesSID ==
    libCall.op = "listen" =>
        \A k \in 2..Len(libCall.sent) :
            LET req == libCall.sent[k]
            IN  /\ req.method \in {"SUBSCRIBE", "UNSUBSCRIBE"}
                /\ req.url = libCall.sent[1].url
                /\ req.url = avTransportEndpoint(libCall.device, <<"E","v","e","n","t">>)
                /\ HeaderGet(req.header, <<"s","i","d">>) = ReturnedSID
                /\ ReturnedSID # <<>>
                /\ ~HeaderHas(req.header, <<"c","a","l","l","b","a","c","k">>)
                /\ ~HeaderHas(req.header, <<"n","t">>)
                /\ IsRenewal(k) =>
                      /\ HasPrefix(HeaderGet(req.header, <<"t","i","m","e","o","u","t">>), <<"S","e","c","o","n","d","-">>)
                      /\ Len(req.header) = 2
                /\ req.method = "UNSUBSCRIBE" =>
                      /\ k = Len(libCall.sent)
                      /\ libCall.pc = "returned"
                      /\ Len(req.header) = 1

\* a run that renewed twice, the lease changing in between, and then
\* unsubscribed, for a device that had put spaces around its SID
C32_Witness ==
    /\ libCall.op = "listen"
    /\ libCall.pc = "returned"
    /\ Len(libCall.sent) = 4
    /\ libCall.answer.sid # ReturnedSID
    /\ IsRenewal(2) /\ IsRenewal(3)
    /\ HeaderGet(libCall.sent[2].header, <<"t","i","m","e","o","u","t">>) # HeaderGet(libCall.sent[3].header, <<"t","i","m","e","o","u","t">>)
    /\ libCall.sent[4].method = "UNSUBSCRIBE"
    /\ HeaderHas(libCall.sent[1].header, <<"c","a","l","l","b","a","c","k">>)


(***************************************************************************)
(* Claims about the receive loop of Discover.                              *)
(***************************************************************************)
\* what has ended a receive loop that has ended
ReceiveEndedFor ==
    /\ libCall.why \in {"deadline", "context", "read_error", "match", "quiet"}
    /\ libCall.why = "deadline" => libCall.now > libCall.deadline
    /\ libCall.why = "context" => libCall.ctxDone
    /\ libCall.why = "quiet" =>
          /\ libCall.lastResponse # NoTime
          /\ libCall.now - libCall.lastResponse >= ssdpQuietPeriod

\* C33: the receive loop of Discover ends only when the deadline has
\* passed, the context is done, a read fails fatally, a response matches the
\* target room, or a read times out a whole quiet period after the latest
\* valid response; it never ends on the quiet period before a valid
\* response; and once the deadline has passed it ends.
C33_ReceiveLoopEnds ==
    /\ []((libCall.op = "receive" /\ libCall.pc = "returned") => ReceiveEndedFor)
    /\ (libCall.op = "receive" /\ libCall.now > libCall.deadline)
          ~> (libCall.op = "receive" /\ libCall.pc = "returned")

\* a loop that ended on the quiet period well before its deadline
C33_Witness ==
    /\ libCall.op = "receive"
    /\ libCall.pc = "returned"
    /\ libCall.why = "quiet"
    /\ ~libCall.ctxDone
    /\ libCall.lastResponse > 0
    /\ libCall.now < libCall.deadline


(***************************************************************************)
(* Claims about escapeAttributeMarkup.                                     *)
(***************************************************************************)
\* the entity of a byte of markup
MarkupEntity(ch) ==
    CASE ch = "\"" -> <<"&","q","u","o","t",";">>
      [] ch = "'" -> <<"&","a","p","o","s",";">>
      [] ch = "<" -> <<"&","l","t",";">>
      [] ch = ">" -> <<"&","g","t",";">>
      [] ch = "&" -> <<"&","a","m","p",";">>

\* what one turn of the loop did with the byte ch
EscapedAsClaimed(ch, st, after) ==
    /\ ~st.inAttr => after.b = Append(st.b, ch)
    /\ (st.inAttr /\ ~after.inAttr) =>
          /\ ch = st.attrQuote
          /\ st.nestedDepth = 0
          /\ ~st.inNestedTag
          /\ after.b = Append(st.b, ch)
    /\ (st.inAttr /\ ch \in {"<", ">", "&", "/"}) => after.inAttr
    /\ (st.inAttr /\ after.inAttr /\ ch \in {"\"", "'", "<", ">", "&"}) =>
          after.b = st.b \o MarkupEntity(ch)
    /\ (st.inAttr /\ ch \notin {"\"", "'", "<", ">", "&"}) => after.b = Append(st.b, ch)

\* C34: in escapeAttributeMarkup a quoted attribute value is closed only by
\* its own quote at nested depth 0 outside a nested tag, so a closing tag in
\* the value does not end it; every quote, <, > and & of the value is
\* written as its entity; a byte outside attribute values is copied.
C34_EscapeValue ==
    [][(libCall.op = "escapeAttributeMarkup" /\ libCall'.op = "escapeAttributeMarkup") =>
          /\ EscapedAsClaimed(libCall.s[libCall.i], libCall.st, libCall'.st)
          /\ libCall'.i > Len(libCall.s) => libCall'.st.b = escapeAttributeMarkup(libCall.s)]_vars

\* a value that holds a closing tag, ended by its own quote after it
C34_Witness ==
    /\ libCall.op = "escapeAttributeMarkup"
    /\ libCall.s = <<"\"", "<", "/", ">", "\"">>
    /\ libCall.i = 6
    /\ ~libCall.st.inAttr
    /\ libCall.st.b = <<"\"", "&","l","t",";", "/", "&","g","t",";", "\"">>


(***************************************************************************)
(* Claims about buildTrackInfo.                                            *)
(***************************************************************************)
\* the first of the four texts that is not blank, trimmed, or nothing
FirstFilled(texts) ==
    IF \A k \in 1..Len(texts) : TrimSpace(texts[k]) = <<>> THEN <<>>
    ELSE TrimSpace(texts[CHOOSE k \in 1..Len(texts) :
                            /\ TrimSpace(texts[k]) # <<>>
                            /\ \A j \in 1..(k - 1) : TrimSpace(texts[j]) = <<>>])

\* C35: buildTrackInfo sets Title to the title of the item when that is not
\* blank, otherwise to programTitle, otherwise to radioShow, otherwise to
\* the stream description; Title is empty only when all four are blank.
C35_TitleFallback ==
    libCall.op = "buildTrackInfo" =>
        /\ libCall.out.err = ""
        /\ libCall.out.info.Title =
              FirstFilled(<<libCall.in.title, libCall.in.programTitle,
                            libCall.in.radioShow, libCall.in.streamContent>>)
        /\ (libCall.out.info.Title = <<>>) =
              (\A f \in {"title", "programTitle", "radioShow", "streamContent"} :
                  TrimSpace(libCall.in[f]) = <<>>)

\* a stream whose title and programme title are blank takes its radio show
C35_Witness ==
    /\ libCall.op = "buildTrackInfo"
    /\ libCall.in.title = <<" "," ">>
    /\ libCall.in.programTitle = <<>>
    /\ libCall.in.streamContent # <<>>
    /\ libCall.out.info.Title = <<"R","a","d","i","o"," ","O","n","e">>


(***************************************************************************)
(* Claims about displayActive and savedArtSignature.                       *)
(***************************************************************************)
\* C36: in every state of the listener displayActive implies that a display
\* is configured and that savedArtSignature is not empty; savedArtSignature
\* becomes non-empty only in an event case whose album-art fetch returned an
\* image, and displayActive becomes true only in an event case whose
\* Display.Show returned no error.
C36_ActiveHasArt ==
    /\ [](displayActive => (opts.Display /\ savedArtSignature # <<>>))
    /\ [][(savedArtSignature' # savedArtSignature /\ savedArtSignature' # <<>>) =>
             /\ \E show \in Outcomes : HandleEvent("img", show)
             /\ \E k \in 1..Len(effects') : effects'[k] = "fetch"
             /\ savedArtSignature' = EventInfo[Head(notifyCh)].signature]_vars
    /\ [][(displayActive' /\ ~displayActive) =>
             /\ HandleEvent("img", "ok")
             /\ effects'[Len(effects')] = "show"
             /\ savedArtSignature' = EventInfo[Head(notifyCh)].signature]_vars

\* a display lit by the art of a track that does not play
C36_Witness ==
    /\ displayActive
    /\ opts.Display
    /\ serviced = "event"
    /\ effects = <<"fetch", "show">>
    /\ savedArtSignature # <<>>
    /\ savedArtSignature = lastTrackSignature
    /\ idleTimer = "armed"


(***************************************************************************)
(* Claims about the idle timer and the clock.                              *)
(***************************************************************************)
\* the loop handled an event that was not filtered and not Playing
IdleEventHandled ==
    /\ libCall.op = "idle"
    /\ libCall'.op = "idle"
    /\ libCall'.serviced = "other"
    /\ libCall'.quiet = 0

\* C37: with a display configured, every event that is handled and is not
\* Playing, a redundant one included, leaves the idle timer running with the
\* whole idle duration ahead of it; the idle case is taken only when a whole
\* idle duration has passed since the last such event.
C37_IdleRestarts ==
    /\ [][(IdleEventHandled /\ libCall.display) =>
             (libCall'.timer = "armed" /\ libCall'.left = IdleTicks)]_vars
    /\ [][(libCall.op = "idle" /\ libCall'.op = "idle"
           /\ libCall'.serviced = "idle" /\ libCall.timer = "fired"
           /\ libCall'.timer = "nil") =>
             (libCall.display /\ libCall.quiet = IdleTicks)]_vars
    /\ [](libCall.op = "idle" =>
             /\ libCall.timer = "armed" => libCall.left \in 1..IdleTicks
             /\ libCall.timer # "nil" => libCall.quiet >= IdleTicks - libCall.left)

\* the idle case was taken a whole idle duration after a redundant event
C37_Witness ==
    /\ libCall.op = "idle"
    /\ libCall.serviced = "idle"
    /\ libCall.redundant
    /\ libCall.timer = "nil"
    /\ libCall.quiet = IdleTicks
    /\ ~libCall.displayActive


(***************************************************************************)
(* Claims about renewals that bring no new lease.                          *)
(***************************************************************************)
\* the answers with which the device refuses a renewal, cannot be reached,
\* or accepts it without a positive timeout
NoNewLease ==
    {resp \in RenewResponses :
        \/ RenewAVTransport(NoSubscription, RequestedTimeout, resp).err # ""
        \/ RenewAVTransport(NoSubscription, RequestedTimeout, resp).n <= 0}

\* C38: a renewal that fails, and one that succeeds without a positive
\* timeout, leave the SID, the lease and the renewal period as they were
\* and the listener in its loop, where the next tick renews again; the
\* listener never subscribes a second time.
C38_RenewalWithoutLease ==
    /\ [][RenewStep =>
             \A resp \in NoNewLease :
                HandleRenew(resp) =>
                   /\ UNCHANGED <<subscription, renewInterval, pc, ret, server>>
                   /\ pc' = "loop"
                   /\ effects'[1] = "renew"
                   /\ subscription'.Timeout > 0
                   /\ ~renewReady']_vars
    /\ [][pc = "loop" =>
             /\ subscription'.ID = subscription.ID
             /\ \A resp \in SubscribeResponses : ~Subscribe(resp)]_vars

\* a renewal failed after an earlier one had shortened the lease
C38_Witness ==
    /\ pc = "loop"
    /\ server = "serving"
    /\ serviced = "renew"
    /\ effects = <<"renew", "warning">>
    /\ subscription.Timeout = 30 * Second
    /\ renewInterval = Minute
    /\ ~renewReady


(***************************************************************************)
(* Claims about a subscribe that the device does not grant.                *)
(***************************************************************************)
\* the device answered 200 or 202 and named a SID
Granted(resp) ==
    /\ resp.transport = "ok"
    /\ resp.status \in {200, 202}
    /\ \E k \in 1..Len(resp.sid) : resp.sid[k] \notin SpaceChars

\* ListenForEvents has returned the error of its subscribe
SubscribeFailed == pc = "returned" /\ ret \in {"transport", "status", "missing_sid"}

\* C39: SubscribeAVTransport returns a Subscription only for a status of 200
\* or 202 with a SID header that is not blank, and otherwise an error with
\* the empty Subscription; ListenForEvents then shuts its callback server
\* down and returns that error, and never enters its loop, renews or
\* unsubscribes.
C39_SubscribeRefused ==
    /\ [][pc = "subscribing" =>
             \A resp \in SubscribeResponses :
                Subscribe(resp) =>
                   LET r == SubscribeAVTransport(resp, RequestedTimeout)
                   IN  /\ (r.err = "") = Granted(resp)
                       /\ r.err = "" => (r.sub.ID # <<>> /\ pc' = "loop")
                       /\ r.err # "" =>
                             /\ r.sub = NoSubscription
                             /\ server' = "closed"
                             /\ pc' = "returned"
                             /\ ret' = r.err
                             /\ effects' = <<"shutdown">>
                             /\ subscription' = NoSubscription]_vars
    /\ [][SubscribeFailed =>
             UNCHANGED <<pc, ret, server, subscription, renewInterval, renewReady,
                         serviced, effects, notifyCh>>]_vars
    /\ [](SubscribeFailed =>
             /\ subscription = NoSubscription
             /\ serviced = "none"
             /\ effects = <<"shutdown">>
             /\ ~renewReady)

\* ListenForEvents returned because the device accepted without a SID, with
\* an event already queued
C39_Witness ==
    /\ pc = "returned"
    /\ ret = "missing_sid"
    /\ server = "closed"
    /\ effects = <<"shutdown">>
    /\ subscription = NoSubscription
    /\ serviced = "none"
    /\ notifyCh # <<>>


(***************************************************************************)
(* Claims about events that arrive while the subscribe is under way.       *)
(***************************************************************************)
\* ch holds the events of an earlier queue, in their order, at its head
StartsWith(ch, earlier) ==
    /\ Len(earlier) <= Len(ch)
    /\ SubSeq(ch, 1, Len(earlier)) = earlier

\* C40: the callback socket is bound and served before the SUBSCRIBE is
\* sent; a NOTIFY that arrives while the subscribe is under way is answered
\* 200 and queued while the queue has room, stays queued until the loop
\* starts, and is then taken by the event case of the loop, unless the
\* listener returns first.
C40_ServedBeforeSubscribe ==
    /\ [][(pc = "start" /\ pc' = "subscribing") => server' = "serving"]_vars
    /\ [](pc = "subscribing" => server \in {"serving", "failed"})
    /\ [][(pc = "subscribing" /\ HandlerStep) =>
             \A req \in NotifyRequests(Events) :
                Handler(req) =>
                   /\ httpLog'.status = 200
                   /\ httpLog'.outcome =
                         IF Len(notifyCh) < NotifyChCap THEN "enqueued" ELSE "dropped"
                   /\ Len(notifyCh) < NotifyChCap => notifyCh' = Append(notifyCh, req.event)]_vars
    /\ [][pc = "subscribing" => StartsWith(notifyCh', notifyCh)]_vars
    /\ (pc = "subscribing" /\ notifyCh # <<>>)
          ~> (pc = "returned" \/ (pc = "loop" /\ serviced = "event"))

\* events are queued and answered while the subscribe is under way
C40_Witness ==
    /\ pc = "subscribing"
    /\ server = "serving"
    /\ Len(notifyCh) = MaxInFlight
    /\ httpLog = [status |-> 200, outcome |-> "enqueued"]
    /\ subscription = NoSubscription

====
